---- MODULE Spec2Model ----
(***************************************************************************)
(* try-utils: the numeric and textual operation catalogs and their         *)
(* validation pipelines.                                                   *)
(*                                                                         *)
(* A behaviour is one call: Init draws the caller's arguments and          *)
(* configuration override, one action per exported operation applies it.   *)
(*                                                                         *)
(* JavaScript values are records with a "tag".  A finite number is         *)
(*   [tag |-> "number", q |-> q, n |-> n]  =  q * MAX_SAFE_INTEGER + n/4,  *)
(* with n small, so that the default bounds (+-MAX_SAFE_INTEGER, which do  *)
(* not fit a TLC integer) are ordinary values: order, sign, integrality    *)
(* and parity are exact on this form.                                      *)
(***************************************************************************)
EXTENDS Integers, Sequences, FiniteSets, TLC

VARIABLES pc, family, op, args, options, env, result, heap

vars == <<pc, family, op, args, options, env, result, heap>>

(***************************************************************************)
(* Values                                                                  *)
(***************************************************************************)
Null == [tag |-> "null"]
Undefined == [tag |-> "undefined"]
Bool(b) == [tag |-> "boolean", b |-> b]
Num(q, n) == [tag |-> "number", q |-> q, n |-> n]
NaN == [tag |-> "NaN"]
Infinity == [tag |-> "Infinity"]
NegInfinity == [tag |-> "-Infinity"]
Str(s) == [tag |-> "string", s |-> s]
Arr(xs) == [tag |-> "array", xs |-> xs]

\* the integer k, and the multiple k/2 of one half
IntV(k) == Num(0, 4 * k)
Half(k) == Num(0, 2 * k)

\* Number.MAX_SAFE_INTEGER = 2^53 - 1 (odd)
MAX_SAFE_INTEGER == Num(1, 0)

Err(msg) == [tag |-> "Error", message |-> msg, args |-> <<>>]
ErrOf(msg, a) == [tag |-> "Error", message |-> msg, args |-> a]

typeof(v) ==
  CASE v.tag \in {"number", "NaN", "Infinity", "-Infinity"} -> "number"
    [] v.tag = "string" -> "string"
    [] v.tag = "boolean" -> "boolean"
    [] v.tag = "undefined" -> "undefined"
    [] OTHER -> "object"

\* v == null
IsNullish(v) == v.tag \in {"null", "undefined"}

IsNumberType(v) == typeof(v) = "number"
NumberIsNaN(v) == v.tag = "NaN"
NumberIsFinite(v) == v.tag = "number"
NumberIsInteger(v) == v.tag = "number" /\ v.n % 4 = 0

\* !!v for the values an option can hold
Truthy(v) ==
  CASE v.tag = "boolean" -> v.b
    [] v.tag = "number" -> ~(v.q = 0 /\ v.n = 0)
    [] v.tag \in {"Infinity", "-Infinity"} -> TRUE
    [] v.tag = "string" -> Len(v.s) > 0
    [] v.tag \in {"array", "Error", "Response"} -> TRUE
    [] OTHER -> FALSE

\* a < b on values of type number (any comparison with NaN is false)
LT(a, b) ==
  CASE a.tag = "NaN" \/ b.tag = "NaN" -> FALSE
    [] a.tag = "Infinity" -> FALSE
    [] b.tag = "-Infinity" -> FALSE
    [] a.tag = "-Infinity" -> TRUE
    [] b.tag = "Infinity" -> TRUE
    [] OTHER -> a.q < b.q \/ (a.q = b.q /\ a.n < b.n)

GT(a, b) == LT(b, a)
LE(a, b) == a.tag # "NaN" /\ b.tag # "NaN" /\ ~LT(b, a)

Zero == IntV(0)
\* num === 0
IsZero(v) == v = Zero

(***************************************************************************)
(* Completions of a function body, and the safe-execution adapter.         *)
(***************************************************************************)
Return(v) == [kind |-> "return", value |-> v]
Throw(e) == [kind |-> "throw", value |-> e]

\* statement sequencing: c2 runs only when c1 did not throw
Then(c1, c2) == IF c1.kind = "throw" THEN c1 ELSE c2

Success(v) == [kind |-> "tuple", value |-> v, error |-> Null]
Failure(e) == [kind |-> "tuple", value |-> Null, error |-> e]
\* a fault that leaves the call uncaptured
Raised(e) == [kind |-> "raised", value |-> Null, error |-> e]

\* tryCatch of @julian-i/try-error: [fn(), null], or [null, error] when fn throws
tryCatch(c) == IF c.kind = "throw" THEN Failure(c.value) ELSE Success(c.value)

(***************************************************************************)
(* Configuration objects: functions from the keys they hold to values.     *)
(***************************************************************************)
NumberKeys == {"min", "max", "allowNegative", "allowZero", "allowInfinity", "allowNaN"}

EmptyObject == [k \in {} |-> Undefined]

\* a configuration object (it holds option keys, not a value's tag)
IsObject(v) == "tag" \notin DOMAIN v

\* an override taken whole in place of the defaults
Spread_replaceWhole(a, b) == IF IsObject(b) THEN b ELSE a

\* a merge that skips the keys of b holding undefined
Spread_skipUndefined(a, b) ==
  LET A == IF IsObject(a) THEN a ELSE EmptyObject
      B == IF IsObject(b) THEN b ELSE EmptyObject
  IN [k \in (DOMAIN A) \cup (DOMAIN B) |->
        IF k \in DOMAIN B /\ (B[k] # Undefined \/ k \notin DOMAIN A) THEN B[k] ELSE A[k]]

\* { ...a, ...b } ; spreading null or undefined adds nothing
Spread(a, b) ==
  LET A == IF IsObject(a) THEN a ELSE EmptyObject
      B == IF IsObject(b) THEN b ELSE EmptyObject
  IN [k \in (DOMAIN A) \cup (DOMAIN B) |-> IF k \in DOMAIN B THEN B[k] ELSE A[k]]

\* o.k
Get(o, k) == IF k \in DOMAIN o THEN o[k] ELSE Undefined

NUMBER_DEFAULT_OPTIONS ==
  [k \in NumberKeys |->
     CASE k = "min" -> Num(-1, 0)
       [] k = "max" -> MAX_SAFE_INTEGER
       [] k = "allowNegative" -> Bool(TRUE)
       [] k = "allowZero" -> Bool(TRUE)
       [] k = "allowInfinity" -> Bool(FALSE)
       [] k = "allowNaN" -> Bool(FALSE)]

(***************************************************************************)
(* Numeric validation pipeline                                             *)
(***************************************************************************)
\* isNumber with its two bound checks ahead of the zero and sign checks
isNumber_boundsFirst(num, opt) ==
  LET opts == Spread(NUMBER_DEFAULT_OPTIONS,
                     IF opt = Undefined THEN NUMBER_DEFAULT_OPTIONS ELSE opt)
  IN
  IF IsNullish(num) THEN Throw(Err("Number is required"))
  ELSE IF ~IsNumberType(num) THEN Throw(Err("Type must be a number"))
  ELSE IF ~Truthy(Get(opts, "allowNaN")) /\ NumberIsNaN(num)
    THEN Throw(Err("Number cannot be NaN"))
  ELSE IF Truthy(Get(opts, "allowNaN")) /\ NumberIsNaN(num) THEN Return(Undefined)
  ELSE IF ~Truthy(Get(opts, "allowInfinity")) /\ ~NumberIsFinite(num)
    THEN Throw(Err("Number cannot be Infinity or -Infinity"))
  ELSE IF Truthy(Get(opts, "allowInfinity")) /\ ~NumberIsFinite(num) THEN Return(Undefined)
  ELSE IF Get(opts, "min") # Undefined /\ LT(num, Get(opts, "min"))
    THEN Throw(ErrOf("Number (${num}) is less than minimum allowed value (${opts.min})",
                     <<num, Get(opts, "min")>>))
  ELSE IF Get(opts, "max") # Undefined /\ GT(num, Get(opts, "max"))
    THEN Throw(ErrOf("Number (${num}) is greater than maximum allowed value (${opts.max})",
                     <<num, Get(opts, "max")>>))
  ELSE IF ~Truthy(Get(opts, "allowZero")) /\ IsZero(num)
    THEN Throw(Err("Number cannot be zero"))
  ELSE IF ~Truthy(Get(opts, "allowNegative")) /\ LT(num, Zero)
    THEN Throw(Err("Number cannot be negative"))
  ELSE Return(Undefined)

\* isNumber without the two early returns for an allowed NaN or infinity
isNumber_noEarlyReturn(num, opt) ==
  LET opts == Spread(NUMBER_DEFAULT_OPTIONS,
                     IF opt = Undefined THEN NUMBER_DEFAULT_OPTIONS ELSE opt)
  IN
  IF IsNullish(num) THEN Throw(Err("Number is required"))
  ELSE IF ~IsNumberType(num) THEN Throw(Err("Type must be a number"))
  ELSE IF ~Truthy(Get(opts, "allowNaN")) /\ NumberIsNaN(num)
    THEN Throw(Err("Number cannot be NaN"))
  ELSE IF ~Truthy(Get(opts, "allowInfinity")) /\ ~NumberIsFinite(num)
    THEN Throw(Err("Number cannot be Infinity or -Infinity"))
  ELSE IF ~Truthy(Get(opts, "allowZero")) /\ IsZero(num)
    THEN Throw(Err("Number cannot be zero"))
  ELSE IF ~Truthy(Get(opts, "allowNegative")) /\ LT(num, Zero)
    THEN Throw(Err("Number cannot be negative"))
  ELSE IF Get(opts, "min") # Undefined /\ LT(num, Get(opts, "min"))
    THEN Throw(ErrOf("Number (${num}) is less than minimum allowed value (${opts.min})",
                     <<num, Get(opts, "min")>>))
  ELSE IF Get(opts, "max") # Undefined /\ GT(num, Get(opts, "max"))
    THEN Throw(ErrOf("Number (${num}) is greater than maximum allowed value (${opts.max})",
                     <<num, Get(opts, "max")>>))
  ELSE Return(Undefined)

\* a validation whose bounds are exclusive: num <= opts.min, num >= opts.max
isNumber_exclusiveBounds(num, opt) ==
  LET opts == Spread(NUMBER_DEFAULT_OPTIONS,
                     IF opt = Undefined THEN NUMBER_DEFAULT_OPTIONS ELSE opt)
  IN
  IF IsNullish(num) THEN Throw(Err("Number is required"))
  ELSE IF ~IsNumberType(num) THEN Throw(Err("Type must be a number"))
  ELSE IF ~Truthy(Get(opts, "allowNaN")) /\ NumberIsNaN(num)
    THEN Throw(Err("Number cannot be NaN"))
  ELSE IF Truthy(Get(opts, "allowNaN")) /\ NumberIsNaN(num) THEN Return(Undefined)
  ELSE IF ~Truthy(Get(opts, "allowInfinity")) /\ ~NumberIsFinite(num)
    THEN Throw(Err("Number cannot be Infinity or -Infinity"))
  ELSE IF Truthy(Get(opts, "allowInfinity")) /\ ~NumberIsFinite(num) THEN Return(Undefined)
  ELSE IF ~Truthy(Get(opts, "allowZero")) /\ IsZero(num)
    THEN Throw(Err("Number cannot be zero"))
  ELSE IF ~Truthy(Get(opts, "allowNegative")) /\ LT(num, Zero)
    THEN Throw(Err("Number cannot be negative"))
  ELSE IF Get(opts, "min") # Undefined /\ LE(num, Get(opts, "min"))
    THEN Throw(ErrOf("Number (${num}) is less than minimum allowed value (${opts.min})",
                     <<num, Get(opts, "min")>>))
  ELSE IF Get(opts, "max") # Undefined /\ LE(Get(opts, "max"), num)
    THEN Throw(ErrOf("Number (${num}) is greater than maximum allowed value (${opts.max})",
                     <<num, Get(opts, "max")>>))
  ELSE Return(Undefined)

isNumber(num, opt) ==
  LET opts == Spread(NUMBER_DEFAULT_OPTIONS,
                     IF opt = Undefined THEN NUMBER_DEFAULT_OPTIONS ELSE opt)
  IN
  IF IsNullish(num) THEN Throw(Err("Number is required"))
  ELSE IF ~IsNumberType(num) THEN Throw(Err("Type must be a number"))
  ELSE IF ~Truthy(Get(opts, "allowNaN")) /\ NumberIsNaN(num)
    THEN Throw(Err("Number cannot be NaN"))
  ELSE IF Truthy(Get(opts, "allowNaN")) /\ NumberIsNaN(num) THEN Return(Undefined)
  ELSE IF ~Truthy(Get(opts, "allowInfinity")) /\ ~NumberIsFinite(num)
    THEN Throw(Err("Number cannot be Infinity or -Infinity"))
  ELSE IF Truthy(Get(opts, "allowInfinity")) /\ ~NumberIsFinite(num) THEN Return(Undefined)
  ELSE IF ~Truthy(Get(opts, "allowZero")) /\ IsZero(num)
    THEN Throw(Err("Number cannot be zero"))
  ELSE IF ~Truthy(Get(opts, "allowNegative")) /\ LT(num, Zero)
    THEN Throw(Err("Number cannot be negative"))
  ELSE IF Get(opts, "min") # Undefined /\ LT(num, Get(opts, "min"))
    THEN Throw(ErrOf("Number (${num}) is less than minimum allowed value (${opts.min})",
                     <<num, Get(opts, "min")>>))
  ELSE IF Get(opts, "max") # Undefined /\ GT(num, Get(opts, "max"))
    THEN Throw(ErrOf("Number (${num}) is greater than maximum allowed value (${opts.max})",
                     <<num, Get(opts, "max")>>))
  ELSE Return(Undefined)

(***************************************************************************)
(* Arithmetic on values of type number                                     *)
(***************************************************************************)
IsNegativeNum(v) == LT(v, Zero)

\* -v
Negate(v) ==
  CASE v.tag = "Infinity" -> NegInfinity
    [] v.tag = "-Infinity" -> Infinity
    [] v.tag = "number" -> Num(-v.q, -v.n)
    [] OTHER -> v

MathAbs(v) == IF IsNegativeNum(v) THEN Negate(v) ELSE v

\* floor and ceiling of n/4 as a multiple of 4
FloorQ(n) == n - (n % 4)
CeilQ(n) == IF n % 4 = 0 THEN n ELSE n - (n % 4) + 4

MathFloor(v) == IF v.tag = "number" THEN Num(v.q, FloorQ(v.n)) ELSE v
MathCeil(v) == IF v.tag = "number" THEN Num(v.q, CeilQ(v.n)) ELSE v

\* num % 2 === 0 : false for NaN and the infinities (the remainder is NaN) and
\* for a non-integer; MAX_SAFE_INTEGER is odd
RemainderTwoIsZero(v) ==
  v.tag = "number" /\ v.n % 4 = 0 /\ (v.q + (v.n \div 4)) % 2 = 0

(***************************************************************************)
(* Classification                                                          *)
(***************************************************************************)
\* isInteger returning "Number.isInteger(num) || undefined"
isInteger_orUndefined(num, opt) ==
  tryCatch(Then(isNumber(num, opt),
                Return(IF NumberIsInteger(num) THEN Bool(TRUE) ELSE Undefined)))

isInteger(num, opt) ==
  tryCatch(Then(isNumber(num, opt),
    IF NumberIsNaN(num) \/ ~NumberIsFinite(num) THEN Return(Bool(FALSE))
    ELSE Return(Bool(NumberIsInteger(num)))))

isPositive(num, opt) ==
  tryCatch(Then(isNumber(num, opt), Return(Bool(GT(num, Zero)))))

isNegative(num, opt) ==
  tryCatch(Then(isNumber(num, opt), Return(Bool(LT(num, Zero)))))

isEven(num, opt) ==
  tryCatch(Then(isNumber(num, opt), Return(Bool(RemainderTwoIsZero(num)))))

isOdd(num, opt) ==
  tryCatch(Then(isNumber(num, opt), Return(Bool(~RemainderTwoIsZero(num)))))

floor(num, opt) ==
  tryCatch(Then(isNumber(num, opt), Return(MathFloor(num))))

ceil(num, opt) ==
  tryCatch(Then(isNumber(num, opt), Return(MathCeil(num))))

abs(num, opt) ==
  tryCatch(Then(isNumber(num, opt), Return(MathAbs(num))))

(***************************************************************************)
(* IEEE-754 doubles holding non-negative integers too large for n/4:       *)
(* [m, e] is m * 2^e, m a little-endian bit sequence of at most 53 bits    *)
(* whose top bit is 1 (<<>> is zero).  Every product and sum is rounded to *)
(* nearest, ties to even, as the hardware does.                            *)
(***************************************************************************)
RECURSIVE NatToBits(_)
NatToBits(k) == IF k = 0 THEN <<>> ELSE <<k % 2>> \o NatToBits(k \div 2)

RECURSIVE BitsToNat(_)
BitsToNat(b) == IF b = <<>> THEN 0 ELSE Head(b) + 2 * BitsToNat(Tail(b))

RECURSIVE MulBits(_, _, _)
\* bits * k + carry, exact
MulBits(b, k, carry) ==
  IF b = <<>> THEN NatToBits(carry)
  ELSE LET t == Head(b) * k + carry
       IN <<t % 2>> \o MulBits(Tail(b), k, t \div 2)

RECURSIVE AddBits(_, _, _)
\* a + b + carry, exact
AddBits(a, b, carry) ==
  IF a = <<>> /\ b = <<>> THEN NatToBits(carry)
  ELSE LET x == IF a = <<>> THEN 0 ELSE Head(a)
           y == IF b = <<>> THEN 0 ELSE Head(b)
           t == x + y + carry
       IN <<t % 2>> \o AddBits(IF a = <<>> THEN a ELSE Tail(a),
                               IF b = <<>> THEN b ELSE Tail(b), t \div 2)

ZeroBits(k) == [i \in 1..k |-> 0]

\* an exact non-negative integer, rounded to the nearest double (a significand
\* of 53 bits)
RoundToDouble(b) ==
  LET L == Len(b) IN
  IF L <= 53 THEN [m |-> b, e |-> 0]
  ELSE LET k == L - 53
           high == SubSeq(b, k + 1, L)
           halfBit == b[k]
           sticky == \E i \in 1..(k - 1) : b[i] = 1
           up == halfBit = 1 /\ (sticky \/ high[1] = 1)
           r == IF up THEN AddBits(high, <<>>, 1) ELSE high
       IN IF Len(r) > 53
            THEN [m |-> SubSeq(r, 2, Len(r)), e |-> k + 1]
            ELSE [m |-> r, e |-> k]

DoubleOfNat(k) == [m |-> NatToBits(k), e |-> 0]
ExpandDouble(d) == IF d.m = <<>> THEN <<>> ELSE ZeroBits(d.e) \o d.m

\* d * k for a small natural k
DoubleTimes(d, k) ==
  LET r == RoundToDouble(MulBits(d.m, k, 0))
  IN [m |-> r.m, e |-> IF r.m = <<>> THEN 0 ELSE d.e + r.e]

\* a + b
DoublePlus(a, b) == RoundToDouble(AddBits(ExpandDouble(a), ExpandDouble(b), 0))

\* the number of low zero bits
TrailingZeros(b) ==
  IF \A i \in 1..Len(b) : b[i] = 0 THEN Len(b)
  ELSE (CHOOSE i \in 1..Len(b) : b[i] = 1 /\ \A j \in 1..(i - 1) : b[j] = 0) - 1

\* the value of a non-negative integer given by its bits: n/4 form when small,
\* else odd significand and exponent; Infinity from 2^1024 on
ValueOfBits(b) ==
  IF Len(b) > 1024 THEN Infinity
  ELSE IF Len(b) <= 28 THEN IntV(BitsToNat(b))
  ELSE LET z == TrailingZeros(b)
       IN [tag |-> "number", m |-> SubSeq(b, z + 1, Len(b)), e |-> z]

ValueOfDouble(d) ==
  IF Len(d.m) + d.e > 1024 THEN Infinity
  ELSE IF Len(d.m) + d.e <= 28 THEN IntV(BitsToNat(ExpandDouble(d)))
  ELSE LET z == TrailingZeros(d.m)
       IN [tag |-> "number", m |-> SubSeq(d.m, z + 1, Len(d.m)), e |-> d.e + z]

RECURSIVE DivBits(_, _, _, _, _)
\* long division of the bits lo..hi of b by g > 0, from the top bit down, rem
\* being the remainder left by the bits above hi: <<quotient bits, remainder>>
\* (split in halves to keep the evaluation shallow; the quotient may keep
\* zero bits at its top)
DivBits(b, g, rem, lo, hi) ==
  IF lo > hi THEN <<<<>>, rem>>
  ELSE IF lo = hi THEN <<<<(2 * rem + b[lo]) \div g>>, (2 * rem + b[lo]) % g>>
  ELSE LET mid == (lo + hi) \div 2
           high == DivBits(b, g, rem, mid + 1, hi)
       IN IF high[2] >= 0
            THEN LET low == DivBits(b, g, high[2], lo, mid)
                 IN <<low[1] \o high[1], low[2]>>
            ELSE high

\* b without the zero bits at its top
StripHigh(b) ==
  IF \A i \in 1..Len(b) : b[i] = 0 THEN <<>>
  ELSE SubSeq(b, 1, CHOOSE i \in 1..Len(b) : b[i] = 1 /\ \A j \in (i + 1)..Len(b) : b[j] = 0)

\* the value m * 2^e of a significand m # 0 and an exponent e of either sign:
\* n/4 form when small, else odd significand and exponent
ValueOfScaled(m, e) ==
  LET z == TrailingZeros(m)
      odd == SubSeq(m, z + 1, Len(m))
      e2 == e + z
  IN IF e2 >= -2 /\ Len(odd) + e2 <= 28 THEN Num(0, BitsToNat(ZeroBits(e2 + 2) \o odd))
     ELSE [tag |-> "number", m |-> odd, e |-> e2]

\* d / g for a double d > 0 and a natural g > 0, rounded to nearest: the
\* quotient of d * 2^96 by g, its lowest bit set when the division leaves a
\* remainder, is rounded to 53 bits
DoubleQuotient(d, g) ==
  LET qr == DivBits(ZeroBits(d.e + 96) \o d.m, g, 0, 1, d.e + 96 + Len(d.m))
      q == StripHigh(qr[1])
      r == RoundToDouble(IF qr[2] # 0 THEN <<1>> \o Tail(q) ELSE q)
  IN ValueOfScaled(r.m, r.e - 96)

(***************************************************************************)
(* Mathematical sequences                                                  *)
(***************************************************************************)
\* the n of an integer value n/4-form value
IntOf(v) == v.n \div 4

FACTORIAL_MAX == 170
FIBONACCI_MAX == 78

RECURSIVE FactorialLoop(_, _, _)
\* for (let i = lo; i <= hi; i++) result *= i
\* (the iterations lo..hi in order, split in halves to keep the evaluation shallow)
FactorialLoop(res, lo, hi) ==
  IF lo > hi THEN res
  ELSE IF lo = hi THEN DoubleTimes(res, lo)
  ELSE LET mid == (lo + hi) \div 2
           r == FactorialLoop(res, lo, mid)
       IN IF r.e >= 0 THEN FactorialLoop(r, mid + 1, hi) ELSE r

RECURSIVE FibonacciLoop(_, _, _)
\* for (let i = lo; i <= hi; i++) [a, b] = [b, a + b]
FibonacciLoop(ab, lo, hi) ==
  IF lo > hi THEN ab
  ELSE IF lo = hi THEN <<ab[2], DoublePlus(ab[1], ab[2])>>
  ELSE LET mid == (lo + hi) \div 2
           r == FibonacciLoop(ab, lo, mid)
       IN IF r[2].e >= 0 THEN FibonacciLoop(r, mid + 1, hi) ELSE r

\* a cap that already rejects the largest argument
ExceedsCap_inclusive(num, cap) == ~LT(num, IntV(cap))

\* num > cap, for a validated integer num
ExceedsCap(num, cap) == GT(num, IntV(cap))

\* factorial letting the caller's override decide the sign and zero policy
factorial_callerWins(num, opt) ==
  tryCatch(
    Then(isNumber(num, Spread([k \in {"allowNegative", "allowZero"} |->
                                 Bool(k = "allowZero")], opt)),
    IF ~NumberIsInteger(num) THEN Throw(Err("Factorial is only defined for integers"))
    ELSE IF ExceedsCap(num, FACTORIAL_MAX)
      THEN Throw(Err("Factorial result would be too large (max: 170)"))
    ELSE IF num = IntV(0) \/ num = IntV(1) THEN Return(IntV(1))
    ELSE Return(ValueOfDouble(FactorialLoop(DoubleOfNat(1), 2, IntOf(num))))))

factorial(num, opt) ==
  tryCatch(
    Then(isNumber(num, Spread(opt, [k \in {"allowNegative", "allowZero"} |->
                                      Bool(k = "allowZero")])),
    IF ~NumberIsInteger(num) THEN Throw(Err("Factorial is only defined for integers"))
    ELSE IF ExceedsCap(num, FACTORIAL_MAX)
      THEN Throw(Err("Factorial result would be too large (max: 170)"))
    ELSE IF num = IntV(0) \/ num = IntV(1) THEN Return(IntV(1))
    ELSE Return(ValueOfDouble(FactorialLoop(DoubleOfNat(1), 2, IntOf(num))))))

fibonacci(num, opt) ==
  tryCatch(
    Then(isNumber(num, Spread(opt, [k \in {"allowNegative", "allowZero"} |->
                                      Bool(k = "allowZero")])),
    IF ~NumberIsInteger(num) THEN Throw(Err("Fibonacci is only defined for integers"))
    ELSE IF ExceedsCap(num, FIBONACCI_MAX)
      THEN Throw(Err("Fibonacci result would be too large (max: 78)"))
    ELSE IF LE(num, IntV(1)) THEN Return(num)
    ELSE Return(ValueOfDouble(FibonacciLoop(<<DoubleOfNat(0), DoubleOfNat(1)>>, 2, IntOf(num))[2]))))

RECURSIVE PrimeLoop_exclusive(_, _)
\* the divisor loop stopping short of the square root
PrimeLoop_exclusive(i, n) ==
  IF i * i < n THEN (IF n % i = 0 THEN FALSE ELSE PrimeLoop_exclusive(i + 2, n)) ELSE TRUE

RECURSIVE PrimeLoop(_, _)
\* for (let i = 3; i <= Math.sqrt(num); i += 2) if (num % i === 0) return false
PrimeLoop(i, n) ==
  IF i * i <= n THEN (IF n % i = 0 THEN FALSE ELSE PrimeLoop(i + 2, n)) ELSE TRUE

isPrime(num, opt) ==
  tryCatch(
    Then(isNumber(num, Spread(opt, [k \in {"allowNegative", "allowZero"} |-> Bool(FALSE)])),
    IF ~NumberIsInteger(num) THEN Throw(Err("Prime check is only defined for integers"))
    ELSE IF num = IntV(1) THEN Return(Bool(FALSE))
    ELSE IF num = IntV(2) THEN Return(Bool(TRUE))
    ELSE IF RemainderTwoIsZero(num) THEN Return(Bool(FALSE))
    ELSE CASE num.q = 0 -> Return(Bool(PrimeLoop(3, IntOf(num))))))

(***************************************************************************)
(* Bounded arithmetic                                                      *)
(***************************************************************************)
\* a + b
Plus(a, b) ==
  CASE a.tag = "NaN" \/ b.tag = "NaN" -> NaN
    [] a.tag = "Infinity" -> IF b.tag = "-Infinity" THEN NaN ELSE Infinity
    [] a.tag = "-Infinity" -> IF b.tag = "Infinity" THEN NaN ELSE NegInfinity
    [] b.tag \in {"Infinity", "-Infinity"} -> b
    [] OTHER -> Num(a.q + b.q, a.n + b.n)

Minus(a, b) == Plus(a, Negate(b))

MathMax(a, b) ==
  IF a.tag = "NaN" \/ b.tag = "NaN" THEN NaN ELSE IF LT(a, b) THEN b ELSE a

MathMin(a, b) ==
  IF a.tag = "NaN" \/ b.tag = "NaN" THEN NaN ELSE IF LT(b, a) THEN b ELSE a

\* clamp comparing its bounds before it validates its inputs
clamp_constraintFirst(num, min, max, opt) ==
  tryCatch(
    IF IsNumberType(min) /\ IsNumberType(max) /\ GT(min, max)
      THEN Throw(Err("Minimum value cannot be greater than maximum value"))
    ELSE
    Then(isNumber(num, opt),
    Then(isNumber(min, opt),
    Then(isNumber(max, opt),
    Return(MathMin(MathMax(num, min), max))))))

clamp(num, min, max, opt) ==
  tryCatch(
    Then(isNumber(num, opt),
    Then(isNumber(min, opt),
    Then(isNumber(max, opt),
    IF GT(min, max)
      THEN Throw(Err("Minimum value cannot be greater than maximum value"))
      ELSE Return(MathMin(MathMax(num, min), max))))))

\* a parameter left out takes its default
Default(v, d) == IF v = Undefined THEN d ELSE v

\* !Number.isInteger(decimals) || decimals < 0
BadDecimals(decimals) == ~NumberIsInteger(decimals) \/ LT(decimals, Zero)

\* Math.round(num * 10^d) / 10^d for an integer d >= 0.  Math.round is
\* floor(x + 1/2).  For d > 0 the argument is a multiple of 1/2, so num * 10^d
\* is an integer computed exactly and the quotient gives num back.
RoundTo(num, d) ==
  CASE num.tag # "number" -> num
    [] num.tag = "number" /\ d = 0 -> Num(num.q, FloorQ(num.n + 2))
    [] num.tag = "number" /\ d > 0 /\ num.q = 0 /\ num.n % 2 = 0 -> num

round(num, decimals0, opt) ==
  LET decimals == Default(decimals0, IntV(0)) IN
  tryCatch(
    Then(isNumber(num, opt),
    IF BadDecimals(decimals)
      THEN Throw(Err("Decimals must be a non-negative integer"))
      ELSE Return(RoundTo(num, IntOf(decimals)))))

(***************************************************************************)
(* Formatting: the platform's Intl.NumberFormat either formats or throws   *)
(***************************************************************************)
\* the text Intl.NumberFormat produced
Formatted == Str(<<"#">>)

\* new Intl.NumberFormat(...).format(num) inside try/catch: intlOk is whether
\* the platform accepted the locale and the options
IntlFormat(intlOk, failure) == IF intlOk THEN Return(Formatted) ELSE Throw(Err(failure))

formatNumber(num, locale0, intlOk) ==
  LET locale == Default(locale0, Str(<<"e", "n">>)) IN
  tryCatch(
    Then(isNumber(num, Undefined),
    IF typeof(locale) # "string" THEN Throw(Err("Locale must be a string"))
    ELSE IntlFormat(intlOk, "Invalid locale or formatting options: ${err.message}")))

formatCurrency(num, currency0, locale0, intlOk) ==
  LET currency == Default(currency0, Str(<<"U", "S", "D">>))
      locale == Default(locale0, Str(<<"e", "n">>))
  IN
  tryCatch(
    Then(isNumber(num, Undefined),
    IF typeof(currency) # "string" THEN Throw(Err("Currency must be a string"))
    ELSE IF typeof(locale) # "string" THEN Throw(Err("Locale must be a string"))
    ELSE IntlFormat(intlOk, "Invalid currency or locale: ${err.message}")))

formatPercent(num, decimals0, locale0, intlOk) ==
  LET decimals == Default(decimals0, IntV(2))
      locale == Default(locale0, Str(<<"e", "n">>))
  IN
  tryCatch(
    Then(isNumber(num, Undefined),
    IF BadDecimals(decimals)
      THEN Throw(Err("Decimals must be a non-negative integer"))
    ELSE IF typeof(locale) # "string" THEN Throw(Err("Locale must be a string"))
    ELSE IntlFormat(intlOk, "Invalid locale: ${err.message}")))

(***************************************************************************)
(* Random numbers: Math.random() is drawn by the caller's environment      *)
(***************************************************************************)
\* a Math.random() that returns 0 at every call
TimesSample_alwaysZero(r, x) ==
  CASE x.tag \in {"NaN", "Infinity", "-Infinity"} -> NaN
    [] x.tag = "number" -> Zero

\* r * x for a sample r of Math.random(), r = 0 or r = 1/2, x a multiple of 1/2
TimesSample(r, x) ==
  CASE x.tag = "NaN" -> NaN
    [] x.tag \in {"Infinity", "-Infinity"} -> IF r = 0 THEN NaN ELSE x
    [] x.tag = "number" /\ r = 0 -> Zero
    [] x.tag = "number" /\ r = 1 /\ x.q = 0 /\ x.n % 2 = 0 -> Num(0, x.n \div 2)

random(min0, max0, opt, r) ==
  LET min == Default(min0, IntV(0))
      max == Default(max0, IntV(1))
  IN
  tryCatch(
    Then(isNumber(min, opt),
    Then(isNumber(max, opt),
    IF GT(min, max)
      THEN Throw(Err("Minimum value cannot be greater than maximum value"))
      ELSE Return(Plus(TimesSample(r, Minus(max, min)), min)))))

randomInt(min, max, opt, r) ==
  tryCatch(
    Then(isNumber(min, opt),
    Then(isNumber(max, opt),
    IF ~NumberIsInteger(min) \/ ~NumberIsInteger(max)
      THEN Throw(Err("Both min and max must be integers"))
    ELSE IF GT(min, max)
      THEN Throw(Err("Minimum value cannot be greater than maximum value"))
    ELSE Return(Plus(MathFloor(TimesSample(r, Plus(Minus(max, min), IntV(1)))), min)))))

(***************************************************************************)
(* Divisors                                                                *)
(***************************************************************************)
RECURSIVE GcdLoop(_, _)
\* while (b !== 0) [a, b] = [b, a % b]
GcdLoop(a, b) == IF b # 0 THEN GcdLoop(b, a % b) ELSE a

\* a % b of the language: the remainder takes the sign of the dividend
Remainder(a, b) ==
  LET m == IF b < 0 THEN -b ELSE b
  IN IF a >= 0 THEN a % m ELSE -((-a) % m)

RECURSIVE GcdLoop_signed(_, _)
GcdLoop_signed(a, b) == IF b # 0 THEN GcdLoop_signed(b, Remainder(a, b)) ELSE a

\* gcd without taking the absolute values of its operands
gcd_noAbs(a, b, opt) ==
  tryCatch(
    Then(isNumber(a, opt),
    Then(isNumber(b, opt),
    IF ~NumberIsInteger(a) \/ ~NumberIsInteger(b)
      THEN Throw(Err("GCD is only defined for integers"))
    ELSE CASE a.q = 0 /\ b.q = 0 ->
           Return(IntV(GcdLoop_signed(IntOf(a), IntOf(b)))))))

gcd(a, b, opt) ==
  tryCatch(
    Then(isNumber(a, opt),
    Then(isNumber(b, opt),
    IF ~NumberIsInteger(a) \/ ~NumberIsInteger(b)
      THEN Throw(Err("GCD is only defined for integers"))
    ELSE CASE a.q = 0 /\ b.q = 0 ->
           Return(IntV(GcdLoop(IntOf(MathAbs(a)), IntOf(MathAbs(b))))))))

lcm(a, b, opt) ==
  tryCatch(
    Then(isNumber(a, opt),
    Then(isNumber(b, opt),
    IF ~NumberIsInteger(a) \/ ~NumberIsInteger(b)
      THEN Throw(Err("LCM is only defined for integers"))
    ELSE IF IsZero(a) \/ IsZero(b)
      THEN Throw(Err("LCM is not defined when one number is zero"))
    ELSE LET gcdResult == gcd(MathAbs(a), MathAbs(b), Undefined) IN
         IF gcdResult.error # Null THEN Throw(gcdResult.error)
         ELSE \* Math.abs(a * b) / gcdResult[0]: the product is rounded to a
              \* double, and so is the quotient
              Return(DoubleQuotient(
                       RoundToDouble(MulBits(NatToBits(IntOf(MathAbs(a))), IntOf(MathAbs(b)), 0)),
                       IntOf(gcdResult.value))))))

(***************************************************************************)
(* Aggregates                                                              *)
(***************************************************************************)
ArrayIsArray(v) == v.tag = "array"

RECURSIVE SumLoop_fromEnd(_, _, _, _)
\* the loop of sum visiting the elements from the last to the first
SumLoop_fromEnd(xs, i, total, opt) ==
  IF i > Len(xs) THEN Return(total)
  ELSE LET x == xs[Len(xs) + 1 - i]
       IN Then(isNumber(x, opt), SumLoop_fromEnd(xs, i + 1, Plus(total, x), opt))

RECURSIVE SumLoop(_, _, _, _)
\* for (const num of numbers) { isNumber(num, options); total += num }
SumLoop(xs, i, total, opt) ==
  IF i > Len(xs) THEN Return(total)
  ELSE Then(isNumber(xs[i], opt), SumLoop(xs, i + 1, Plus(total, xs[i]), opt))

sum(numbers, opt) ==
  tryCatch(
    IF ~ArrayIsArray(numbers) THEN Throw(Err("Input must be an array"))
    ELSE IF Len(numbers.xs) = 0 THEN Throw(Err("Array cannot be empty"))
    ELSE SumLoop(numbers.xs, 1, Zero, opt))

\* v / k for a count k >= 1: exact when it is a multiple of 1/4, else the
\* nearest double to the quotient, kept as the quotient
DividedBy(v, k) ==
  CASE v.tag # "number" -> v
    [] v.tag = "number" /\ v.q % k = 0 /\ v.n % k = 0 -> Num(v.q \div k, v.n \div k)
    [] OTHER -> [tag |-> "number", dividend |-> v, divisor |-> k]

\* average reporting a failure of its own when sum fails
average_wrapsFailure(numbers, opt) ==
  tryCatch(
    IF ~ArrayIsArray(numbers) THEN Throw(Err("Input must be an array"))
    ELSE IF Len(numbers.xs) = 0 THEN Throw(Err("Array cannot be empty"))
    ELSE LET sumResult == sum(numbers, opt) IN
         IF sumResult.error # Null THEN Throw(Err("Sum failed"))
         ELSE Return(DividedBy(sumResult.value, Len(numbers.xs))))

average(numbers, opt) ==
  tryCatch(
    IF ~ArrayIsArray(numbers) THEN Throw(Err("Input must be an array"))
    ELSE IF Len(numbers.xs) = 0 THEN Throw(Err("Array cannot be empty"))
    ELSE LET sumResult == sum(numbers, opt) IN
         IF sumResult.error # Null THEN Throw(sumResult.error)
         ELSE Return(DividedBy(sumResult.value, Len(numbers.xs))))

RECURSIVE MinLoop(_, _, _, _)
\* for (const num of numbers) { isNumber(num, options); if (num < minValue) minValue = num }
MinLoop(xs, i, minValue, opt) ==
  IF i > Len(xs) THEN Return(minValue)
  ELSE Then(isNumber(xs[i], opt),
            MinLoop(xs, i + 1, IF LT(xs[i], minValue) THEN xs[i] ELSE minValue, opt))

min(numbers, opt) ==
  tryCatch(
    IF ~ArrayIsArray(numbers) THEN Throw(Err("Input must be an array"))
    ELSE IF Len(numbers.xs) = 0 THEN Throw(Err("Array cannot be empty"))
    ELSE MinLoop(numbers.xs, 1, numbers.xs[1], opt))

RECURSIVE MaxLoop(_, _, _, _)
\* for (const num of numbers) { isNumber(num, options); if (num > maxValue) maxValue = num }
MaxLoop(xs, i, maxValue, opt) ==
  IF i > Len(xs) THEN Return(maxValue)
  ELSE Then(isNumber(xs[i], opt),
            MaxLoop(xs, i + 1, IF GT(xs[i], maxValue) THEN xs[i] ELSE maxValue, opt))

max(numbers, opt) ==
  tryCatch(
    IF ~ArrayIsArray(numbers) THEN Throw(Err("Input must be an array"))
    ELSE IF Len(numbers.xs) = 0 THEN Throw(Err("Array cannot be empty"))
    ELSE MaxLoop(numbers.xs, 1, numbers.xs[1], opt))

(***************************************************************************)
(* Text: a string is a sequence of characters                              *)
(***************************************************************************)
LowerLetters == {"a", "b", "c"}
UpperLetters == {"A", "B", "C"}
Digits == {"0", "1", "2", "3", "4", "5", "6", "7", "8", "9"}
\* \s
Whitespace == {" "}
\* a character of [\x00-\x08\x0B\x0C\x0E-\x1F\x7F]
ControlChars == {"<x01>"}
\* \w
WordChars == LowerLetters \cup UpperLetters \cup Digits \cup {"_"}

ToUpperChar(c) ==
  CASE c = "a" -> "A" [] c = "b" -> "B" [] c = "c" -> "C" [] OTHER -> c
ToLowerChar(c) ==
  CASE c = "A" -> "a" [] c = "B" -> "b" [] c = "C" -> "c" [] OTHER -> c

ToUpperCase(s) == [i \in 1..Len(s) |-> ToUpperChar(s[i])]
ToLowerCase(s) == [i \in 1..Len(s) |-> ToLowerChar(s[i])]

\* s.split("").reverse().join("")
ReverseSeq(s) == [i \in 1..Len(s) |-> s[Len(s) + 1 - i]]

\* s without its leading characters of the set cs
DropLeading(s, cs) ==
  IF \A i \in 1..Len(s) : s[i] \in cs THEN <<>>
  ELSE SubSeq(s, CHOOSE i \in 1..Len(s) : s[i] \notin cs /\ \A j \in 1..(i - 1) : s[j] \in cs,
              Len(s))

\* s.trim()
Trim(s) == ReverseSeq(DropLeading(ReverseSeq(DropLeading(s, Whitespace)), Whitespace))

\* ToIntegerOrInfinity of a slice bound, for a string of length len: NaN is 0,
\* a fraction is cut towards zero, the infinities lie beyond both ends
ToIntegerOrInfinity(v, len) ==
  CASE v.tag = "NaN" -> 0
    [] v.tag = "Infinity" -> len
    [] v.tag = "-Infinity" -> -len
    [] v.tag = "number" /\ v.q = 0 ->
         IF v.n >= 0 THEN v.n \div 4 ELSE -((-v.n) \div 4)

\* s.slice(0, k) for an integer k
SliceTo(s, k) ==
  LET e == IF k < 0 THEN (IF Len(s) + k < 0 THEN 0 ELSE Len(s) + k)
           ELSE IF k > Len(s) THEN Len(s) ELSE k
  IN SubSeq(s, 1, e)

STRING_MAX_LENGTH == 10000

StringKeys == {"maxLength", "allowWhitespaceOnly", "allowSpecialChars"}

STRING_DEFAULT_OPTIONS ==
  [k \in StringKeys |->
     CASE k = "maxLength" -> IntV(STRING_MAX_LENGTH)
       [] k = "allowWhitespaceOnly" -> Bool(FALSE)
       [] k = "allowSpecialChars" -> Bool(TRUE)]

\* /[\x00-\x08\x0B\x0C\x0E-\x1F\x7F]/.test(str)
HasControlChars(s) == \E i \in 1..Len(s) : s[i] \in ControlChars

(***************************************************************************)
(* Textual validation pipeline                                             *)
(***************************************************************************)
\* isString with the maximum-length check ahead of the whitespace-only check
isString_lengthFirst(str, opt) ==
  LET opts == Spread(STRING_DEFAULT_OPTIONS,
                     IF opt = Undefined THEN STRING_DEFAULT_OPTIONS ELSE opt)
  IN
  IF IsNullish(str) THEN Throw(Err("String is required"))
  ELSE IF typeof(str) # "string" THEN Throw(Err("Type must be a string"))
  ELSE IF Len(str.s) = 0 THEN Throw(Err("String must not be empty"))
  ELSE IF Truthy(Get(opts, "maxLength")) /\ GT(IntV(Len(str.s)), Get(opts, "maxLength"))
    THEN Throw(ErrOf("String length (${str.length}) exceeds maximum allowed length (${opts.maxLength})",
                     <<IntV(Len(str.s)), Get(opts, "maxLength")>>))
  ELSE IF ~Truthy(Get(opts, "allowWhitespaceOnly")) /\ Len(Trim(str.s)) = 0
    THEN Throw(Err("String must not be whitespace-only"))
  ELSE IF ~Truthy(Get(opts, "allowSpecialChars")) /\ HasControlChars(str.s)
    THEN Throw(Err("String contains invalid control characters"))
  ELSE Return(Undefined)

isString(str, opt) ==
  LET opts == Spread(STRING_DEFAULT_OPTIONS,
                     IF opt = Undefined THEN STRING_DEFAULT_OPTIONS ELSE opt)
  IN
  IF IsNullish(str) THEN Throw(Err("String is required"))
  ELSE IF typeof(str) # "string" THEN Throw(Err("Type must be a string"))
  ELSE IF Len(str.s) = 0 THEN Throw(Err("String must not be empty"))
  ELSE IF ~Truthy(Get(opts, "allowWhitespaceOnly")) /\ Len(Trim(str.s)) = 0
    THEN Throw(Err("String must not be whitespace-only"))
  ELSE IF Truthy(Get(opts, "maxLength")) /\ GT(IntV(Len(str.s)), Get(opts, "maxLength"))
    THEN Throw(ErrOf("String length (${str.length}) exceeds maximum allowed length (${opts.maxLength})",
                     <<IntV(Len(str.s)), Get(opts, "maxLength")>>))
  ELSE IF ~Truthy(Get(opts, "allowSpecialChars")) /\ HasControlChars(str.s)
    THEN Throw(Err("String contains invalid control characters"))
  ELSE Return(Undefined)

(***************************************************************************)
(* Case transforms                                                         *)
(***************************************************************************)
capitalize(str, opt) ==
  tryCatch(
    Then(isString(str, opt),
    IF Len(str.s) = 1 THEN Return(Str(ToUpperCase(str.s)))
    ELSE Return(Str(<<ToUpperChar(Head(str.s))>> \o ToLowerCase(Tail(str.s))))))

RECURSIVE ReplaceChar(_, _, _)
\* s.replace(/c/g, d)
ReplaceChar(s, c, d) ==
  IF s = <<>> THEN <<>>
  ELSE <<IF Head(s) = c THEN d ELSE Head(s)>> \o ReplaceChar(Tail(s), c, d)

RECURSIVE UpperAtWordStart(_, _)
\* s.replace(/\b\w/g, (char) => char.toUpperCase()); prevWord: the character
\* before s is a word character
UpperAtWordStart(s, prevWord) ==
  IF s = <<>> THEN <<>>
  ELSE <<IF Head(s) \in WordChars /\ ~prevWord THEN ToUpperChar(Head(s)) ELSE Head(s)>>
         \o UpperAtWordStart(Tail(s), Head(s) \in WordChars)

RECURSIVE RemoveChars(_, _)
\* s.replace(/[cs]+/g, "")
RemoveChars(s, cs) ==
  IF s = <<>> THEN <<>>
  ELSE (IF Head(s) \in cs THEN <<>> ELSE <<Head(s)>>) \o RemoveChars(Tail(s), cs)

camelCase(str, opt) ==
  tryCatch(
    Then(isString(str, opt),
    LET trimmed == DropLeading(str.s, {"_"}) IN
    IF Len(trimmed) = 0 THEN Throw(Err("String contains only underscores"))
    ELSE LET res == RemoveChars(UpperAtWordStart(ReplaceChar(trimmed, "_", " "), FALSE),
                                Whitespace)
         IN Return(Str(IF res = <<>> THEN <<>>
                       ELSE <<ToLowerChar(Head(res))>> \o Tail(res)))))

RECURSIVE PrefixUpper(_, _)
\* s.replace(/([A-Z])/g, sep + "$1")
PrefixUpper(s, sep) ==
  IF s = <<>> THEN <<>>
  ELSE (IF Head(s) \in UpperLetters THEN <<sep, Head(s)>> ELSE <<Head(s)>>)
         \o PrefixUpper(Tail(s), sep)

\* /^[cs]+$/.test(s)
OnlyChars(s, cs) == Len(s) > 0 /\ \A i \in 1..Len(s) : s[i] \in cs

snakeCase(str, opt) ==
  tryCatch(
    Then(isString(str, opt),
    IF OnlyChars(str.s, LowerLetters \cup {"_"}) THEN Return(str)
    ELSE Return(Str(ToLowerCase(PrefixUpper(str.s, "_"))))))

kebabCase(str, opt) ==
  tryCatch(
    Then(isString(str, opt),
    IF OnlyChars(str.s, LowerLetters \cup {"-"}) THEN Return(str)
    ELSE Return(Str(ToLowerCase(PrefixUpper(str.s, "-"))))))

RECURSIVE PascalReplace(_, _)
\* s.replace(/(^|_)([a-z])/g, (_, __, char) => char.toUpperCase()); atStart: s
\* begins the string
PascalReplace(s, atStart) ==
  IF s = <<>> THEN <<>>
  ELSE IF atStart /\ Head(s) \in LowerLetters
    THEN <<ToUpperChar(Head(s))>> \o PascalReplace(Tail(s), FALSE)
  ELSE IF Head(s) = "_" /\ Len(s) >= 2 /\ s[2] \in LowerLetters
    THEN <<ToUpperChar(s[2])>> \o PascalReplace(Tail(Tail(s)), FALSE)
  ELSE <<Head(s)>> \o PascalReplace(Tail(s), FALSE)

pascalCase(str, opt) ==
  tryCatch(
    Then(isString(str, opt),
    LET trimmed == DropLeading(str.s, {"_"}) IN
    IF Len(trimmed) = 0 THEN Throw(Err("String contains only underscores"))
    ELSE Return(Str(PascalReplace(trimmed, TRUE)))))

titleCase(str, opt) ==
  tryCatch(
    Then(isString(str, opt),
    IF Len(Trim(str.s)) = 0 THEN Throw(Err("String contains only whitespace"))
    ELSE Return(Str(UpperAtWordStart(str.s, FALSE)))))

(***************************************************************************)
(* Other text utilities                                                    *)
(***************************************************************************)
\* suffix.length: a TypeError on null, undefined for a value without length
LengthOf(v) ==
  CASE v.tag = "string" -> Return(IntV(Len(v.s)))
    [] v.tag = "array" -> Return(IntV(Len(v.xs)))
    [] v.tag \in {"null", "undefined"} ->
         Throw(Err("TypeError: Cannot read properties of null (reading 'length')"))
    [] OTHER -> Return(Undefined)

\* a <= b where a is a number and b a number or undefined (undefined converts to NaN)
LEq(a, b) == IF b = Undefined THEN FALSE ELSE LE(a, b)

\* truncate reading suffix.length before it enters tryCatch
truncate_lengthOutside(str, maxLength, suffix0, opt) ==
  LET suffix == Default(suffix0, Str(<<".", ".", ".">>)) IN
  IF LengthOf(suffix).kind = "throw" THEN Raised(LengthOf(suffix).value)
  ELSE tryCatch(
    Then(isString(str, opt),
    IF LE(maxLength, Zero) THEN Throw(Err("Max length must be greater than 0"))
    ELSE IF LEq(maxLength, LengthOf(suffix).value)
        THEN Throw(Err("Max length must be greater than suffix length"))
      ELSE IF LE(IntV(Len(str.s)), maxLength) THEN Return(str)
      ELSE CASE suffix.tag = "string" ->
             Return(Str(SliceTo(str.s, ToIntegerOrInfinity(Minus(maxLength, IntV(Len(suffix.s))),
                                                           Len(str.s)))
                        \o suffix.s))))

\* truncate keeping maxLength characters of str ahead of the suffix
truncate_keepsMaxLength(str, maxLength, suffix0, opt) ==
  LET suffix == Default(suffix0, Str(<<".", ".", ".">>)) IN
  tryCatch(
    Then(isString(str, opt),
    IF LE(maxLength, Zero) THEN Throw(Err("Max length must be greater than 0"))
    ELSE Then(LengthOf(suffix),
      IF LEq(maxLength, LengthOf(suffix).value)
        THEN Throw(Err("Max length must be greater than suffix length"))
      ELSE IF LE(IntV(Len(str.s)), maxLength) THEN Return(str)
      ELSE CASE suffix.tag = "string" ->
             Return(Str(SliceTo(str.s, ToIntegerOrInfinity(maxLength, Len(str.s)))
                        \o suffix.s)))))

truncate(str, maxLength, suffix0, opt) ==
  LET suffix == Default(suffix0, Str(<<".", ".", ".">>)) IN
  tryCatch(
    Then(isString(str, opt),
    IF LE(maxLength, Zero) THEN Throw(Err("Max length must be greater than 0"))
    ELSE Then(LengthOf(suffix),
      IF LEq(maxLength, LengthOf(suffix).value)
        THEN Throw(Err("Max length must be greater than suffix length"))
      ELSE IF LE(IntV(Len(str.s)), maxLength) THEN Return(str)
      ELSE CASE suffix.tag = "string" ->
             Return(Str(SliceTo(str.s, ToIntegerOrInfinity(Minus(maxLength, IntV(Len(suffix.s))),
                                                           Len(str.s)))
                        \o suffix.s)))))

reverse(str, opt) ==
  tryCatch(Then(isString(str, opt), Return(Str(ReverseSeq(str.s)))))

RECURSIVE CountRuns(_, _)
\* the number of maximal runs of non-whitespace characters
CountRuns(s, inWord) ==
  IF s = <<>> THEN 0
  ELSE (IF Head(s) \notin Whitespace /\ ~inWord THEN 1 ELSE 0)
         + CountRuns(Tail(s), Head(s) \notin Whitespace)

countWords(str, opt) ==
  tryCatch(
    Then(isString(str, opt),
    LET trimmed == Trim(str.s) IN
    IF Len(trimmed) = 0 THEN Return(IntV(0))
    ELSE Return(IntV(CountRuns(trimmed, FALSE)))))

RECURSIVE CollapseSpaces(_, _)
\* s.replace(/\s+/g, " ")
CollapseSpaces(s, inSpace) ==
  IF s = <<>> THEN <<>>
  ELSE IF Head(s) \in Whitespace
    THEN (IF inSpace THEN <<>> ELSE <<" ">>) \o CollapseSpaces(Tail(s), TRUE)
  ELSE <<Head(s)>> \o CollapseSpaces(Tail(s), FALSE)

removeExtraSpaces(str, opt) ==
  tryCatch(Then(isString(str, opt), Return(Str(Trim(CollapseSpaces(str.s, FALSE))))))

RECURSIVE KeepChars(_, _)
\* s.replace(/[^cs]/g, "")
KeepChars(s, cs) ==
  IF s = <<>> THEN <<>>
  ELSE (IF Head(s) \in cs THEN <<Head(s)>> ELSE <<>>) \o KeepChars(Tail(s), cs)

\* isPalindrome comparing the text without lower-casing it first
isPalindrome_caseSensitive(str, opt) ==
  tryCatch(
    Then(isString(str, opt),
    LET cleaned == KeepChars(str.s, LowerLetters \cup Digits) IN
    IF Len(cleaned) = 0 THEN Throw(Err("String contains no alphanumeric characters"))
    ELSE Return(Bool(cleaned = ReverseSeq(cleaned)))))

isPalindrome(str, opt) ==
  tryCatch(
    Then(isString(str, opt),
    LET cleaned == KeepChars(ToLowerCase(str.s), LowerLetters \cup Digits) IN
    IF Len(cleaned) = 0 THEN Throw(Err("String contains no alphanumeric characters"))
    ELSE Return(Bool(cleaned = ReverseSeq(cleaned)))))

(***************************************************************************)
(* Conversion between numbers and text                                     *)
(***************************************************************************)
DigitChar(d) ==
  CASE d = 0 -> "0" [] d = 1 -> "1" [] d = 2 -> "2" [] d = 3 -> "3" [] d = 4 -> "4"
    [] d = 5 -> "5" [] d = 6 -> "6" [] d = 7 -> "7" [] d = 8 -> "8" [] d = 9 -> "9"

DigitValue(c) ==
  CASE c = "0" -> 0 [] c = "1" -> 1 [] c = "2" -> 2 [] c = "3" -> 3 [] c = "4" -> 4
    [] c = "5" -> 5 [] c = "6" -> 6 [] c = "7" -> 7 [] c = "8" -> 8 [] c = "9" -> 9

RECURSIVE NatToDigits(_)
\* the decimal digits of a natural number
NatToDigits(k) ==
  IF k < 10 THEN <<DigitChar(k)>> ELSE NatToDigits(k \div 10) \o <<DigitChar(k % 10)>>

RECURSIVE DigitsToNat(_, _)
DigitsToNat(s, acc) ==
  IF s = <<>> THEN acc ELSE DigitsToNat(Tail(s), 10 * acc + DigitValue(Head(s)))

RECURSIVE DigitsToBits(_, _)
\* the binary digits (low first) of a decimal numeral of any length
DigitsToBits(s, acc) ==
  IF s = <<>> THEN acc ELSE DigitsToBits(Tail(s), MulBits(acc, 10, DigitValue(Head(s))))

RECURSIVE BitsToDigits(_)
\* the decimal digits of a natural number given by its binary digits
BitsToDigits(b) ==
  IF Len(b) <= 28 THEN NatToDigits(BitsToNat(b))
  ELSE LET qr == DivBits(b, 10, 0, 1, Len(b))
       IN BitsToDigits(StripHigh(qr[1])) \o <<DigitChar(qr[2])>>

\* the binary digits of |v| for an integer v = +-(MAX_SAFE_INTEGER - k):
\* 2^53 - 1 is 53 ones, so subtracting k < 2^28 clears the bits set in k
SafeIntegerBits(v) ==
  LET kb == NatToBits((IF v.n < 0 THEN -v.n ELSE v.n) \div 4)
  IN [i \in 1..53 |-> IF i <= Len(kb) THEN 1 - kb[i] ELSE 1]

\* the number whose binary digits are b, for b below 2^28 or within 2^28 of
\* MAX_SAFE_INTEGER
SafeIntegerOfBits(b) ==
  CASE Len(b) <= 28 -> IntV(BitsToNat(b))
    [] Len(b) = 53 /\ \A i \in 29..53 : b[i] = 1 ->
         Num(1, -4 * BitsToNat(StripHigh([i \in 1..28 |-> 1 - b[i]])))

RECURSIVE Zeros(_)
Zeros(k) == IF k <= 0 THEN <<>> ELSE <<"0">> \o Zeros(k - 1)

\* the digits of a / 4 (a >= 0) with d fraction digits, as Number.prototype.toFixed
\* picks them: the integer N nearest to (a / 4) * 10^d, the larger one on a tie
FixedDigits(a, d) ==
  LET ip == a \div 4
      f == a % 4
  IN CASE d = 0 -> NatToDigits(IF f >= 2 THEN ip + 1 ELSE ip)
       [] d = 1 -> NatToDigits(ip) \o <<".">>
                     \o <<CASE f = 0 -> "0" [] f = 1 -> "3" [] f = 2 -> "5" [] f = 3 -> "8">>
       [] d >= 2 -> NatToDigits(ip) \o <<".">>
                     \o (CASE f = 0 -> <<"0", "0">> [] f = 1 -> <<"2", "5">>
                           [] f = 2 -> <<"5", "0">> [] f = 3 -> <<"7", "5">>)
                     \o Zeros(d - 2)

\* num.toFixed(d) for 0 <= d <= 20
NumberToFixed(num, d) ==
  CASE num.tag = "NaN" -> <<"N", "a", "N">>
    [] num.tag = "Infinity" -> <<"I", "n", "f", "i", "n", "i", "t", "y">>
    [] num.tag = "-Infinity" -> <<"-", "I", "n", "f", "i", "n", "i", "t", "y">>
    [] num.tag = "number" /\ num.q = 0 ->
         (IF num.n < 0 THEN <<"-">> ELSE <<>>)
           \o FixedDigits(IF num.n < 0 THEN -num.n ELSE num.n, d)
    [] num.tag = "number" /\ num.q # 0 /\ num.q * num.n <= 0 /\ num.n % 4 = 0 ->
         (IF num.q < 0 THEN <<"-">> ELSE <<>>)
           \o BitsToDigits(SafeIntegerBits(num))
           \o (IF d = 0 THEN <<>> ELSE <<".">> \o Zeros(d))

toFixed(num, decimals0, opt) ==
  LET decimals == Default(decimals0, IntV(0)) IN
  tryCatch(
    Then(isNumber(num, opt),
    IF ~NumberIsInteger(decimals) \/ LT(decimals, Zero) \/ GT(decimals, IntV(20))
      THEN Throw(Err("Decimals must be an integer between 0 and 20"))
      ELSE Return(Str(NumberToFixed(num, IntOf(decimals))))))

\* the position of the first "." of s, or 0
DotAt(s) ==
  IF \E i \in 1..Len(s) : s[i] = "." THEN CHOOSE i \in 1..Len(s) :
       s[i] = "." /\ \A j \in 1..(i - 1) : s[j] # "."
  ELSE 0

\* the quarters in the fraction 0.ds when they are whole: .25 .5 .75 and zeros
FractionQuarters(ds) ==
  LET t == ReverseSeq(DropLeading(ReverseSeq(ds), {"0"})) IN
  CASE t = <<>> -> 0
    [] t = <<"2", "5">> -> 1
    [] t = <<"5">> -> 2
    [] t = <<"7", "5">> -> 3

\* an unsigned StrDecimalLiteral without exponent: digits, digits.digits, .digits
IsUnsignedDecimal(s) ==
  /\ \A i \in 1..Len(s) : s[i] \in Digits \cup {"."}
  /\ Cardinality({i \in 1..Len(s) : s[i] = "."}) <= 1
  /\ \E i \in 1..Len(s) : s[i] \in Digits

UnsignedDecimalValue(s) ==
  LET dot == DotAt(s)
      ip == IF dot = 0 THEN s ELSE SubSeq(s, 1, dot - 1)
      fp == IF dot = 0 THEN <<>> ELSE SubSeq(s, dot + 1, Len(s))
  IN CASE Len(ip) <= 8 -> Num(0, 4 * DigitsToNat(ip, 0) + FractionQuarters(fp))
       [] Len(ip) > 8 /\ FractionQuarters(fp) = 0 -> SafeIntegerOfBits(DigitsToBits(ip, <<>>))

\* a conversion that reads a leading "-" and then drops it
StringToNumber_signDropped(s) ==
  LET t == Trim(s)
      signed == t # <<>> /\ Head(t) \in {"-", "+"}
      body == IF signed THEN Tail(t) ELSE t
  IN CASE t = <<>> -> Zero
       [] body = <<"I", "n", "f", "i", "n", "i", "t", "y">> -> Infinity
       [] body # <<>> /\ IsUnsignedDecimal(body) -> UnsignedDecimalValue(body)
       [] OTHER -> NaN

\* Number(str), on text made of digits, ".", "+", "-", whitespace, the words
\* Infinity and NaN, and characters that appear in no numeric literal
StringToNumber(s) ==
  LET t == Trim(s)
      signed == t # <<>> /\ Head(t) \in {"-", "+"}
      body == IF signed THEN Tail(t) ELSE t
      apply(v) == IF signed /\ Head(t) = "-" THEN Negate(v) ELSE v
  IN CASE t = <<>> -> Zero
       [] body = <<"I", "n", "f", "i", "n", "i", "t", "y">> -> apply(Infinity)
       [] body # <<>> /\ IsUnsignedDecimal(body) -> apply(UnsignedDecimalValue(body))
       [] OTHER -> NaN

parseNumber(str, opt) ==
  tryCatch(
    IF typeof(str) # "string" THEN Throw(Err("Input must be a string"))
    ELSE IF Len(Trim(str.s)) = 0 THEN Throw(Err("String cannot be empty"))
    ELSE LET num == StringToNumber(str.s) IN
         IF NumberIsNaN(num) THEN Throw(Err("String cannot be converted to a valid number"))
         ELSE Then(isNumber(num, opt), Return(num)))

(***************************************************************************)
(* The network adapter                                                     *)
(***************************************************************************)
\* a settled promise
Fulfilled(v) == [kind |-> "fulfilled", value |-> v]
RejectedWith(e) == [kind |-> "rejected", value |-> e]

\* what the promise returned by an async function settles to
Resolved(v) == [kind |-> "resolved", value |-> v, error |-> Null]
Rejected(e) == [kind |-> "rejected", value |-> Null, error |-> e]

\* tryPromise of @julian-i/try-error: [value, null], or [null, error] when
\* the promise rejects
tryPromise(settled) ==
  IF settled.kind = "rejected" THEN Failure(settled.value) ELSE Success(settled.value)

\* a Response as fetch resolves it; id tells one response object from another
Response(id, ok, status) == [tag |-> "Response", id |-> id, ok |-> ok, status |-> status]

\* the platform's record of a run: the calls of fetch, what each settled to,
\* the responses whose json() was called, and what each of those settled to
Idle == [requests |-> <<>>, answers |-> <<>>, decodes |-> <<>>, bodies |-> <<>>]
\* a call of fetch that adds a header of its own to the caller's options
Request_headerAdded(url, init) ==
  [url |-> url, init |-> Spread(init, [headers |-> Str(<<"j">>)])]

Request(url, init) == [url |-> url, init |-> init]

\* a safeFetch that decodes the body of every response, ok or not
AfterFetch_decodesFailures(settled, returnJson) ==
  LET t == tryPromise(settled)
      data == t.value
      fetchError == t.error
  IN IF Truthy(fetchError) THEN [await |-> FALSE, settle |-> Rejected(fetchError)]
     ELSE IF Truthy(returnJson) THEN [await |-> TRUE, settle |-> Resolved(data)]
     ELSE [await |-> FALSE, settle |-> Resolved(data)]

\* safeFetch from the settling of fetch(url, options) on: what it settles to,
\* or the response whose json() it awaits
AfterFetch(settled, returnJson) ==
  LET t == tryPromise(settled)
      data == t.value
      fetchError == t.error
  IN IF Truthy(fetchError) THEN [await |-> FALSE, settle |-> Rejected(fetchError)]
     ELSE IF ~data.ok THEN [await |-> FALSE, settle |-> Resolved(data)]
     ELSE IF Truthy(returnJson) THEN [await |-> TRUE, settle |-> Resolved(data)]
     ELSE [await |-> FALSE, settle |-> Resolved(data)]

\* safeFetch from the settling of data.json() on
AfterJson(settled) ==
  LET t == tryPromise(settled)
      json == t.value
      jsonError == t.error
  IN IF Truthy(jsonError) THEN Rejected(jsonError) ELSE Resolved(json)

(***************************************************************************)
(* The caller: argument and override sets                                  *)
(***************************************************************************)
\* an override object of the classification, sequence and text families holds
\* at most this many keys (the other families: at most one)
MaxOptionKeys == 2
\* factorial, fibonacci and isPrime are called on every integer 0..MaxSequenceArg
MaxSequenceArg == 172
\* arrays hold at most this many elements
MaxArrayLen == 2
\* under the default configuration every text of at most this many characters
MaxTextLen == 3

\* per key, the value that departs from the default, and explicit undefined
NumberOptionValues(k) ==
  CASE k = "min" -> {Undefined, IntV(1)}
    [] k = "max" -> {Undefined, IntV(2)}
    [] k \in {"allowNegative", "allowZero"} -> {Undefined, Bool(FALSE)}
    [] k \in {"allowInfinity", "allowNaN"} -> {Undefined, Bool(TRUE)}

StringOptionValues(k) ==
  CASE k = "maxLength" -> {Undefined, IntV(0), IntV(2)}
    [] k = "allowWhitespaceOnly" -> {Undefined, Bool(TRUE)}
    [] k = "allowSpecialChars" -> {Undefined, Bool(FALSE)}

\* the objects over some keys, each key absent or holding one of its values
ObjectsOver(keys, vals(_), limit) ==
  UNION { { o \in [D -> UNION {vals(k) : k \in D}] : \A k \in D : o[k] \in vals(k) } :
          D \in {S \in SUBSET keys : Cardinality(S) <= limit} }

\* overrides of three keys
WiderNumberOverrides ==
  {[allowInfinity |-> Bool(TRUE), allowNegative |-> Bool(FALSE), min |-> IntV(1)],
   [allowNaN |-> Bool(TRUE), allowZero |-> Bool(FALSE), max |-> IntV(2)],
   [allowZero |-> Bool(FALSE), allowNegative |-> Bool(FALSE), min |-> IntV(1)]}

\* no override, null, {} and the objects of a few keys
NumberOverrides ==
  {Undefined, Null} \cup ObjectsOver(NumberKeys, NumberOptionValues, MaxOptionKeys)
    \cup WiderNumberOverrides
FewNumberOverrides ==
  {Undefined} \cup ObjectsOver(NumberKeys, NumberOptionValues, 1)
StringOverrides ==
  {Undefined, Null} \cup ObjectsOver(StringKeys, StringOptionValues, MaxOptionKeys)
FewStringOverrides ==
  {Undefined} \cup ObjectsOver(StringKeys, StringOptionValues, 1)

\* MAX_SAFE_INTEGER, 2^53 and their negatives
BigValues == {MAX_SAFE_INTEGER, Num(1, 4), Num(-1, 0), Num(-1, -4)}

SpecialValues == {Null, Undefined, Str(<<"1">>), NaN, Infinity, NegInfinity}

ClassifyValues ==
  SpecialValues \cup BigValues
    \cup {IntV(0), IntV(1), IntV(2), IntV(3), IntV(-1), IntV(-2), Half(1), Half(-3)}

SequenceValues ==
  SpecialValues \cup {Num(1, 4), Num(-1, 0), IntV(-5), Half(11), Half(-3), IntV(0), IntV(1),
                      IntV(2), IntV(4), IntV(9), IntV(17), IntV(79), IntV(171)}

\* overrides by which a caller tries to relax the sign and zero policy
PolicyOverrides ==
  {[allowNegative |-> Bool(TRUE)], [allowZero |-> Bool(TRUE)],
   [allowNegative |-> Bool(TRUE), allowZero |-> Bool(TRUE)],
   [allowNegative |-> Bool(TRUE), allowInfinity |-> Bool(TRUE), allowNaN |-> Bool(TRUE)],
   [allowNegative |-> Bool(TRUE), min |-> Undefined, max |-> Undefined]}

ClampValues ==
  {Null, NaN, Infinity, NegInfinity, IntV(0), IntV(5), IntV(10), IntV(15), IntV(-5)}

BinaryValues ==
  {Undefined, Null, Str(<<"1">>), NaN, Infinity, NegInfinity,
   IntV(0), IntV(2), IntV(3), IntV(-4), IntV(6), Half(3),
   IntV(5), IntV(7), IntV(12), IntV(18), IntV(-18)}

RoundedValues == {Null, Str(<<"1">>), NaN, Infinity, IntV(0), IntV(3), Half(1), Half(5), Half(-5)}

DecimalsValues ==
  {Undefined, Null, NaN, IntV(0), IntV(1), IntV(2), IntV(-1), Half(1), IntV(20), IntV(21)}

ElementValues == {Null, NaN, Infinity, NegInfinity, IntV(0), IntV(1), IntV(-2)}

RECURSIVE SeqsUpTo(_, _)
\* the sequences over S of length at most k
SeqsUpTo(S, k) ==
  IF k = 0 THEN {<<>>}
  ELSE LET shorter == SeqsUpTo(S, k - 1)
       IN shorter \cup {Append(t, x) : t \in shorter, x \in S}

ArrayValues ==
  {Null, Undefined, Str(<<"x">>), IntV(1)} \cup {Arr(xs) : xs \in SeqsUpTo(ElementValues, MaxArrayLen)}

TextAlphabet == {"a", "B", "_", "-", " ", "1", "<x01>"}

AllTexts == {Str(t) : t \in SeqsUpTo(TextAlphabet, MaxTextLen)}

\* candidates that meet each check of the textual pipeline
ValidatedTexts ==
  {Null, Undefined, IntV(1), Arr(<<>>),
   Str(<<>>), Str(<<" ">>), Str(<<" ", " ", " ">>), Str(<<"a">>), Str(<<"a", "b">>),
   Str(<<"a", "b", "c">>), Str(<<"<x01>">>), Str(<<"a", "<x01>", "b">>),
   Str(<<"_">>), Str(<<"_", "_", "_">>), Str(<<"-", "-", "-">>), Str(<<"_", " ", " ">>)}

TruncateTexts ==
  {Null, IntV(1), Str(<<>>), Str(<<" ", " ">>), Str(<<"a">>), Str(<<"a", "b">>),
   Str(<<"a", "b", "c", "a", "b">>), Str(<<"a", "<x01>", "c", "a", "b", "c">>)}

MaxLengthValues ==
  {NaN, Infinity, IntV(-1), IntV(0), IntV(1), IntV(2), IntV(3), IntV(4), IntV(5), Half(9)}

SuffixValues == {Undefined, Null, Str(<<>>), Str(<<".">>), Str(<<".", ".">>)}

\* digits, sign, point, blank, and a character of no numeric literal
ParseAlphabet == {"1", "5", ".", "-", " "}

\* the double Number(t) gives is a multiple of 1/4
HeldExactly(t) ==
  LET u == Trim(t)
      body == IF u # <<>> /\ Head(u) \in {"-", "+"} THEN Tail(u) ELSE u
  IN body # <<>> /\ IsUnsignedDecimal(body) =>
       LET dot == DotAt(body) IN
       dot = 0 \/ ReverseSeq(DropLeading(ReverseSeq(SubSeq(body, dot + 1, Len(body))), {"0"}))
                    \in {<<>>, <<"2", "5">>, <<"5">>, <<"7", "5">>}

NamedParseValues ==
  {Null, Undefined, IntV(1), Str(<<"I", "n", "f", "i", "n", "i", "t", "y">>),
   Str(<<"-", "I", "n", "f", "i", "n", "i", "t", "y">>), Str(<<"N", "a", "N">>),
   Str(<<>>), Str(<<" ">>), Str(<<"0">>), Str(<<"1">>), Str(<<"-", "1">>), Str(<<"1", "a">>)}

SpelledParseValues ==
  {Str(t) : t \in {u \in SeqsUpTo(ParseAlphabet, MaxTextLen) : HeldExactly(u)}}

ParseValues == NamedParseValues \cup SpelledParseValues

ParseOverrides ==
  {Undefined, [max |-> IntV(2)], [allowNegative |-> Bool(FALSE)], [allowZero |-> Bool(FALSE)]}

FormatParameters == {Undefined, Null, Str(<<"U", "S", "D">>), IntV(1), IntV(-1), Half(1)}
LocaleValues == {Undefined, Str(<<"e", "n">>), IntV(5)}
FormattedValues == {Null, Str(<<"1">>), NaN, Infinity, IntV(0), IntV(1), Half(1), Num(1, 4)}

\* samples of Math.random(): 0 and 1/2, in halves
RandomSamples == {0, 1}

Input(f, a, o) == [family |-> f, args |-> a, options |-> o]

ClassifyInputs == {Input("classify", <<v>>, o) : v \in ClassifyValues, o \in NumberOverrides}

SequenceInputs ==
  {Input("sequence", <<v>>, o) :
     v \in SequenceValues,
     o \in FewNumberOverrides \cup {Null} \cup WiderNumberOverrides \cup PolicyOverrides}
    \cup {Input("sequence", <<IntV(k)>>, o) :
            k \in 0..MaxSequenceArg, o \in {Undefined, EmptyObject}}

ClampInputs ==
  {Input("clamp", <<a, b, c>>, o) :
     a \in ClampValues, b \in ClampValues, c \in ClampValues, o \in FewNumberOverrides}

BinaryInputs ==
  {Input("binary", <<a, b>>, o) : a \in BinaryValues, b \in BinaryValues, o \in FewNumberOverrides}

\* safe integers whose product exceeds 2^53 while their least common multiple
\* does not (their greatest common divisor is 3)
LargePairs ==
  {<<IntV(95066217), IntV(95420679)>>, <<IntV(95420679), IntV(95066217)>>,
   <<IntV(-95066217), IntV(95420679)>>}

LargePairInputs ==
  {Input("largepair", p, o) : p \in LargePairs, o \in {Undefined, EmptyObject}}

\* integers beyond the default bounds, with overrides that admit them
WidenedPairs ==
  {<<Num(1, 4), IntV(2)>>, <<IntV(2), Num(1, 4)>>, <<Num(-1, -4), IntV(3)>>,
   <<IntV(2), IntV(3)>>, <<IntV(0), Num(1, 4)>>, <<Num(1, 4), Half(1)>>}

WideningOverrides ==
  {[max |-> Undefined], [max |-> Infinity], [min |-> Undefined, max |-> Undefined],
   [min |-> NegInfinity]}

WidenedInputs ==
  {Input("widened", p, o) : p \in WidenedPairs, o \in WideningOverrides}

DecimalsInputs ==
  {Input("decimals", <<a, d>>, o) :
     a \in RoundedValues, d \in DecimalsValues, o \in FewNumberOverrides}

\* integers at and next to the ends of the safe range
SafeEndValues ==
  {MAX_SAFE_INTEGER, Negate(MAX_SAFE_INTEGER), Num(1, -4), Num(-1, 4), Num(1, -4 * 123456789),
   Num(1, 4), Num(-1, -4), IntV(-3), IntV(95066217)}

SafeEndInputs ==
  {Input("safeend", <<a, d>>, o) :
     a \in SafeEndValues, d \in {Undefined, IntV(0), IntV(2)}, o \in {Undefined, EmptyObject}}

FormatInputs ==
  {Input("format", <<a, b, c>>, Undefined) :
     a \in FormattedValues, b \in FormatParameters, c \in LocaleValues}

ArrayInputs == {Input("array", <<a>>, o) : a \in ArrayValues, o \in FewNumberOverrides}

ParseInputs ==
  {Input("parse", <<a>>, o) : a \in NamedParseValues, o \in FewNumberOverrides}
    \cup {Input("parse", <<a>>, o) : a \in SpelledParseValues, o \in ParseOverrides}

NumberInputs ==
  ClassifyInputs \cup SequenceInputs \cup ClampInputs \cup BinaryInputs \cup LargePairInputs
    \cup WidenedInputs
    \cup DecimalsInputs \cup SafeEndInputs \cup FormatInputs \cup ArrayInputs \cup ParseInputs

TextInputs ==
  {Input("text", <<a>>, Undefined) : a \in AllTexts}
    \cup {Input("text", <<a>>, o) : a \in ValidatedTexts, o \in StringOverrides}

TruncateInputs ==
  {Input("truncate", <<a, b, c>>, o) :
     a \in TruncateTexts, b \in MaxLengthValues, c \in SuffixValues, o \in FewStringOverrides}

\* "a".repeat(10001): one character more than the default maxLength
LongText == Str([i \in 1..(STRING_MAX_LENGTH + 1) |-> "a"])

LongTextInputs ==
  {Input("longtext", <<LongText>>, o) :
     o \in {Undefined, EmptyObject, [maxLength |-> Undefined], [maxLength |-> IntV(0)],
            [allowSpecialChars |-> Bool(FALSE)]}}

StringInputs == TextInputs \cup TruncateInputs \cup LongTextInputs

\* the requests a caller may make, and what the platform may answer
Urls == {Str(<<"a">>), Str(<<"a", "?", "1">>), Str(<<>>)}
RequestInits == {EmptyObject, [method |-> Str(<<"P">>)], [method |-> Str(<<"P">>), body |-> Str(<<"1">>)]}
ReturnJsonValues == {Undefined, Bool(TRUE), Bool(FALSE)}
NetworkFaults == {Err("Network error"), Err("Failed to fetch")}
DecodeFaults == {Err("Invalid JSON")}
Responses ==
  {Response(i, ok, st) : i \in 1..2, ok \in {TRUE}, st \in {IntV(200), IntV(204)}}
    \cup {Response(i, ok, st) : i \in 1..2, ok \in {FALSE}, st \in {IntV(404), IntV(500)}}
Bodies == {Null, Bool(FALSE), IntV(0), Str(<<>>), Arr(<<IntV(1)>>), [data |-> Str(<<"a">>)]}

FetchInputs ==
  {Input("fetch", <<u, i, r>>, Undefined) : u \in Urls, i \in RequestInits, r \in ReturnJsonValues}

Inputs == NumberInputs \cup StringInputs \cup FetchInputs

NoResult == [kind |-> "none", value |-> Null, error |-> Null]

\* what the platform contributes to a call: nothing, a sample of Math.random()
\* (0 or 1/2, in halves), or whether Intl.NumberFormat accepts its arguments
NoEnv == [random |-> 0, intlOk |-> TRUE]
EnvValues == [random : RandomSamples, intlOk : BOOLEAN]

\* the exports of the number module
InvokeNumber(name, a, o, e) ==
  CASE name = "isInteger" -> isInteger(a[1], o)
    [] name = "isPositive" -> isPositive(a[1], o)
    [] name = "isNegative" -> isNegative(a[1], o)
    [] name = "isEven" -> isEven(a[1], o)
    [] name = "isOdd" -> isOdd(a[1], o)
    [] name = "clamp" -> clamp(a[1], a[2], a[3], o)
    [] name = "round" -> round(a[1], a[2], o)
    [] name = "floor" -> floor(a[1], o)
    [] name = "ceil" -> ceil(a[1], o)
    [] name = "abs" -> abs(a[1], o)
    [] name = "formatNumber" -> formatNumber(a[1], a[3], e.intlOk)
    [] name = "formatCurrency" -> formatCurrency(a[1], a[2], a[3], e.intlOk)
    [] name = "formatPercent" -> formatPercent(a[1], a[2], a[3], e.intlOk)
    [] name = "random" -> random(a[1], a[2], o, e.random)
    [] name = "randomInt" -> randomInt(a[1], a[2], o, e.random)
    [] name = "factorial" -> factorial(a[1], o)
    [] name = "fibonacci" -> fibonacci(a[1], o)
    [] name = "isPrime" -> isPrime(a[1], o)
    [] name = "gcd" -> gcd(a[1], a[2], o)
    [] name = "lcm" -> lcm(a[1], a[2], o)
    [] name = "sum" -> sum(a[1], o)
    [] name = "average" -> average(a[1], o)
    [] name = "min" -> min(a[1], o)
    [] name = "max" -> max(a[1], o)
    [] name = "toFixed" -> toFixed(a[1], a[2], o)
    [] name = "parseNumber" -> parseNumber(a[1], o)

\* the exports of the string module
InvokeString(name, a, o) ==
  CASE name = "capitalize" -> capitalize(a[1], o)
    [] name = "camelCase" -> camelCase(a[1], o)
    [] name = "snakeCase" -> snakeCase(a[1], o)
    [] name = "kebabCase" -> kebabCase(a[1], o)
    [] name = "pascalCase" -> pascalCase(a[1], o)
    [] name = "titleCase" -> titleCase(a[1], o)
    [] name = "truncate" -> truncate(a[1], a[2], a[3], o)
    [] name = "reverse" -> reverse(a[1], o)
    [] name = "countWords" -> countWords(a[1], o)
    [] name = "removeExtraSpaces" -> removeExtraSpaces(a[1], o)
    [] name = "isPalindrome" -> isPalindrome(a[1], o)

StringOperations ==
  {"capitalize", "camelCase", "snakeCase", "kebabCase", "pascalCase", "titleCase",
   "truncate", "reverse", "countWords", "removeExtraSpaces", "isPalindrome"}

Invoke(name, a, o, e) ==
  IF name \in StringOperations THEN InvokeString(name, a, o) ELSE InvokeNumber(name, a, o, e)

(***************************************************************************)
(* Objects that outlive a call: the two DEFAULT_OPTIONS constants, the     *)
(* caller's override object and the caller's first argument (the array of  *)
(* sum, average, min and max)                                              *)
(***************************************************************************)
HeapOf(a, o) ==
  [numberDefaults |-> NUMBER_DEFAULT_OPTIONS,
   stringDefaults |-> STRING_DEFAULT_OPTIONS,
   options |-> o,
   numbers |-> a[1]]

\* an object literal that would fill the object it spreads first
ObjectLiteral_fillsFirst(first) == first

\* { ...first, ...rest }: the literal creates the object it fills
ObjectLiteral(first) == "new"

\* the heap after the object target received the keys of rest
Fill(h, target, rest) ==
  IF target = "new" THEN h ELSE [h EXCEPT ![target] = Spread(@, rest)]

\* the heap after a call of the operation name: its object literals are the
\* only places where an object is written
HeapAfter(name, o, h) ==
  CASE name \in {"factorial", "fibonacci", "isPrime"} ->
         LET policy == [k \in {"allowNegative", "allowZero"} |->
                          Bool(k = "allowZero" /\ name # "isPrime")]
         IN Fill(Fill(h, ObjectLiteral("options"), policy),
                 ObjectLiteral("numberDefaults"), Spread(o, policy))
    [] name \in StringOperations -> Fill(h, ObjectLiteral("stringDefaults"), o)
    [] OTHER -> Fill(h, ObjectLiteral("numberDefaults"), o)

\* the caller holds its arguments and has not called yet
InitFrom(inputs) ==
  \E i \in inputs :
    /\ pc = "ready"
    /\ family = i.family
    /\ args = i.args
    /\ options = i.options
    /\ op = "none"
    /\ env = IF i.family = "fetch" THEN Idle ELSE NoEnv
    /\ result = NoResult
    /\ heap = HeapOf(i.args, i.options)

Init == InitFrom(Inputs)

\* one call of the operation name, by a caller of one of the families fams,
\* in the environment e
Call(name, fams, e) ==
  /\ pc = "ready"
  /\ family \in fams
  /\ pc' = "done"
  /\ op' = name
  /\ env' = e
  /\ result' = Invoke(name, args, options, e)
  /\ heap' = HeapAfter(name, options, heap)
  /\ UNCHANGED <<family, args, options>>

IsInteger == Call("isInteger", {"classify"}, NoEnv)
IsPositive == Call("isPositive", {"classify"}, NoEnv)
IsNegative == Call("isNegative", {"classify"}, NoEnv)
IsEven == Call("isEven", {"classify"}, NoEnv)
IsOdd == Call("isOdd", {"classify"}, NoEnv)
Floor == Call("floor", {"classify"}, NoEnv)
Ceil == Call("ceil", {"classify"}, NoEnv)
Abs == Call("abs", {"classify"}, NoEnv)
Factorial == Call("factorial", {"sequence"}, NoEnv)
Fibonacci == Call("fibonacci", {"sequence"}, NoEnv)
IsPrime == Call("isPrime", {"sequence"}, NoEnv)
Clamp == Call("clamp", {"clamp"}, NoEnv)
Round == Call("round", {"decimals"}, NoEnv)
ToFixed == Call("toFixed", {"decimals", "safeend"}, NoEnv)
FormatNumber == \E e \in EnvValues : e.random = 0 /\ Call("formatNumber", {"format"}, e)
FormatCurrency == \E e \in EnvValues : e.random = 0 /\ Call("formatCurrency", {"format"}, e)
FormatPercent == \E e \in EnvValues : e.random = 0 /\ Call("formatPercent", {"format"}, e)
Random == \E e \in EnvValues : e.intlOk /\ Call("random", {"binary"}, e)
RandomInt == \E e \in EnvValues : e.intlOk /\ Call("randomInt", {"binary"}, e)
Gcd == Call("gcd", {"binary"}, NoEnv)
Lcm == Call("lcm", {"binary", "largepair", "widened"}, NoEnv)
Sum == Call("sum", {"array"}, NoEnv)
Average == Call("average", {"array"}, NoEnv)
Min == Call("min", {"array"}, NoEnv)
Max == Call("max", {"array"}, NoEnv)
ParseNumber == Call("parseNumber", {"parse"}, NoEnv)

Capitalize == Call("capitalize", {"text", "longtext"}, NoEnv)
CamelCase == Call("camelCase", {"text"}, NoEnv)
SnakeCase == Call("snakeCase", {"text"}, NoEnv)
KebabCase == Call("kebabCase", {"text"}, NoEnv)
PascalCase == Call("pascalCase", {"text"}, NoEnv)
TitleCase == Call("titleCase", {"text"}, NoEnv)
Truncate == Call("truncate", {"truncate"}, NoEnv)
Reverse == Call("reverse", {"text", "longtext"}, NoEnv)
CountWords == Call("countWords", {"text"}, NoEnv)
RemoveExtraSpaces == Call("removeExtraSpaces", {"text"}, NoEnv)
IsPalindrome == Call("isPalindrome", {"text"}, NoEnv)

\* safeFetch(url, options, returnJson) up to its first await: fetch is called
SafeFetch ==
  /\ pc = "ready"
  /\ family = "fetch"
  /\ pc' = "fetching"
  /\ op' = "safeFetch"
  /\ env' = [env EXCEPT !.requests = Append(@, Request(args[1], args[2]))]
  /\ UNCHANGED <<family, args, options, result, heap>>

\* fetch settles and safeFetch runs on to its return, its throw or data.json()
FetchSettles(settled) ==
  /\ pc = "fetching"
  /\ LET next == AfterFetch(settled, Default(args[3], Bool(TRUE)))
     IN IF next.await
          THEN /\ pc' = "decoding"
               /\ env' = [env EXCEPT !.answers = Append(@, settled),
                                      !.decodes = Append(@, next.settle.value)]
               /\ UNCHANGED result
          ELSE /\ pc' = "done"
               /\ env' = [env EXCEPT !.answers = Append(@, settled)]
               /\ result' = next.settle
  /\ UNCHANGED <<family, op, args, options, heap>>

FetchRejects == \E e \in NetworkFaults : FetchSettles(RejectedWith(e))
FetchResolves == \E r \in Responses : FetchSettles(Fulfilled(r))

\* data.json() settles and safeFetch runs on to its return or its throw
JsonSettles(settled) ==
  /\ pc = "decoding"
  /\ pc' = "done"
  /\ result' = AfterJson(settled)
  /\ env' = [env EXCEPT !.bodies = Append(@, settled)]
  /\ UNCHANGED <<family, op, args, options, heap>>

JsonRejects == \E e \in DecodeFaults : JsonSettles(RejectedWith(e))
JsonResolves == \E v \in Bodies : JsonSettles(Fulfilled(v))

FetchNext == SafeFetch \/ FetchRejects \/ FetchResolves \/ JsonRejects \/ JsonResolves

ClassifyNext ==
  \/ IsInteger \/ IsPositive \/ IsNegative \/ IsEven \/ IsOdd
  \/ Floor \/ Ceil \/ Abs

SequenceNext == Factorial \/ Fibonacci \/ IsPrime

BinaryNext == Random \/ RandomInt \/ Gcd \/ Lcm

ArrayNext == Sum \/ Average \/ Min \/ Max

ConversionNext == ToFixed \/ ParseNumber

NumberNext ==
  \/ ClassifyNext
  \/ SequenceNext
  \/ Clamp \/ Round
  \/ FormatNumber \/ FormatCurrency \/ FormatPercent
  \/ BinaryNext
  \/ ArrayNext
  \/ ConversionNext

StringNext ==
  \/ Capitalize \/ CamelCase \/ SnakeCase \/ KebabCase \/ PascalCase \/ TitleCase
  \/ Truncate \/ Reverse \/ CountWords \/ RemoveExtraSpaces \/ IsPalindrome

CatalogNext == NumberNext \/ StringNext

\* the caller of a catalog operation is ready for its next call, with the
\* same objects
Again ==
  /\ pc = "done"
  /\ family # "fetch"
  /\ pc' = "ready"
  /\ op' = "none"
  /\ env' = NoEnv
  /\ result' = NoResult
  /\ UNCHANGED <<family, args, options, heap>>

Next == CatalogNext \/ FetchNext \/ Again

\* every operation of the package
Spec == Init /\ [][Next]_vars

\* every operation of both catalogs
SpecCatalog == InitFrom(NumberInputs \cup StringInputs) /\ [][CatalogNext]_vars

\* the network adapter
SpecFetch == InitFrom(FetchInputs) /\ [][FetchNext]_vars

RepeatNext == CatalogNext \/ Again

\* callers that invoke the operations of both catalogs again and again
SpecRepeat == InitFrom(NumberInputs \cup StringInputs) /\ [][RepeatNext]_vars

\* the callers that exercise the two validation pipelines
SpecValidation ==
  InitFrom(ClassifyInputs \cup StringInputs) /\ [][ClassifyNext \/ StringNext]_vars

\* the callers of one family
SpecClassify == InitFrom(ClassifyInputs) /\ [][ClassifyNext]_vars
SpecSequence == InitFrom(SequenceInputs) /\ [][SequenceNext]_vars
SpecClamp == InitFrom(ClampInputs) /\ [][Clamp]_vars
SpecBinary ==
  InitFrom(BinaryInputs \cup LargePairInputs \cup WidenedInputs) /\ [][BinaryNext]_vars
SpecArray == InitFrom(ArrayInputs) /\ [][ArrayNext]_vars
SpecConversion ==
  InitFrom(DecimalsInputs \cup SafeEndInputs \cup ParseInputs) /\ [][ConversionNext]_vars
SpecString == InitFrom(StringInputs) /\ [][StringNext]_vars

(***************************************************************************)
(* Properties of the Outcome of a call                                     *)
(***************************************************************************)

ArrayOperations == {"sum", "average", "min", "max"}

\* the operations whose first parameter is a number handed to isNumber as it is
NumberFirstOperations ==
  {"isInteger", "isPositive", "isNegative", "isEven", "isOdd", "floor", "ceil", "abs",
   "clamp", "round", "toFixed", "formatNumber", "formatCurrency", "formatPercent",
   "factorial", "fibonacci", "isPrime", "gcd", "lcm"}

\* C1: every call of a numeric or textual operation returns an Outcome pair
\* with exactly one slot populated: either the failure slot is null and the
\* success payload is neither null nor undefined (a falsy payload such as 0,
\* false or "" is a success), or the success slot is null and the failure
\* slot holds a non-null Error with a non-empty message.
C1_OutcomeHasOneSlot ==
  pc = "done" =>
    /\ result.kind = "tuple"
    /\ \/ result.error = Null /\ result.value \notin {Null, Undefined}
       \/ /\ result.error # Null
          /\ result.value = Null
          /\ result.error.tag = "Error"
          /\ result.error.message # ""

\* isInteger(NaN, {allowNaN: true}) succeeds with the falsy payload false
C1_FalsySuccess ==
  /\ pc = "done"
  /\ op = "isInteger"
  /\ args[1] = NaN
  /\ result = Success(Bool(FALSE))

\* C2: no numeric or textual operation lets a fault escape to its caller:
\* the call always ends in an Outcome pair, and a fault of validation, of a
\* parameter constraint or of the computation itself (a null suffix handed to
\* truncate, a non-array handed to an aggregate, a missing or wrongly typed
\* candidate) is found in the failure slot.
C2_NoFaultEscapes ==
  pc = "done" =>
    /\ result.kind = "tuple"
    /\ (op = "truncate" /\ args[3] = Null) => result.error # Null
    /\ (op \in ArrayOperations /\ args[1].tag # "array") =>
         result = Failure(Err("Input must be an array"))
    /\ (op \in NumberFirstOperations /\ IsNullish(args[1])) =>
         result = Failure(Err("Number is required"))
    /\ (op \in NumberFirstOperations /\ ~IsNullish(args[1]) /\ ~IsNumberType(args[1])) =>
         result = Failure(Err("Type must be a number"))
    /\ (op \in StringOperations /\ IsNullish(args[1])) =>
         result = Failure(Err("String is required"))

\* truncate("ab", 2, null): reading the length of the null suffix raises a
\* TypeError inside the computation, and the caller finds it in the failure slot
C2_NullSuffixCaptured ==
  /\ pc = "done"
  /\ op = "truncate"
  /\ args[3] = Null
  /\ result.kind = "tuple"
  /\ result.value = Null
  /\ result.error = LengthOf(Null).value

(***************************************************************************)
(* Properties of the numeric validation pipeline                           *)
(***************************************************************************)

\* the configuration a call validates against: the caller's override laid
\* over the defaults of the number module
NumberConfig(o) == Spread(NUMBER_DEFAULT_OPTIONS, o)

NumberChecks ==
  <<"presence", "type", "NaN", "infinity", "zero", "sign", "minimum", "maximum">>

\* the candidate num violates the k-th numeric check under the configuration cfg
NumberCheckViolated(k, num, cfg) ==
  CASE k = 1 -> num \in {Null, Undefined}
    [] k = 2 -> ~IsNumberType(num)
    [] k = 3 -> num = NaN /\ ~Truthy(cfg.allowNaN)
    [] k = 4 -> num \in {Infinity, NegInfinity} /\ ~Truthy(cfg.allowInfinity)
    [] k = 5 -> num = Zero /\ ~Truthy(cfg.allowZero)
    [] k = 6 -> IsNumberType(num) /\ LT(num, Zero) /\ ~Truthy(cfg.allowNegative)
    [] k = 7 -> IsNumberType(num) /\ cfg.min # Undefined /\ LT(num, cfg.min)
    [] k = 8 -> IsNumberType(num) /\ cfg.max # Undefined /\ GT(num, cfg.max)

\* the failure the k-th numeric check reports
NumberCheckFailure(k, num, cfg) ==
  CASE k = 1 -> Err("Number is required")
    [] k = 2 -> Err("Type must be a number")
    [] k = 3 -> Err("Number cannot be NaN")
    [] k = 4 -> Err("Number cannot be Infinity or -Infinity")
    [] k = 5 -> Err("Number cannot be zero")
    [] k = 6 -> Err("Number cannot be negative")
    [] k = 7 -> ErrOf("Number (${num}) is less than minimum allowed value (${opts.min})",
                      <<num, cfg.min>>)
    [] k = 8 -> ErrOf("Number (${num}) is greater than maximum allowed value (${opts.max})",
                      <<num, cfg.max>>)

NumberChecksViolated(num, cfg) ==
  {k \in DOMAIN NumberChecks : NumberCheckViolated(k, num, cfg)}

\* the least element of a non-empty set of naturals
Least(S) == CHOOSE k \in S : \A j \in S : k <= j

\* an allowed NaN or an allowed infinity
AllowedSpecial(num, cfg) ==
  \/ num = NaN /\ Truthy(cfg.allowNaN)
  \/ num \in {Infinity, NegInfinity} /\ Truthy(cfg.allowInfinity)

\* C3: numeric validation applies its checks in the order presence, type,
\* NaN, infinity, zero, sign, minimum, maximum: a reported failure is the
\* failure of the earliest check the candidate violates, whatever later checks
\* it violates as well, and (an allowed NaN or infinity aside) a candidate that
\* violates a check is rejected with the failure of the earliest one.
C3_EarliestNumberCheckReported ==
  (pc = "done" /\ family = "classify") =>
    LET num == args[1]
        cfg == NumberConfig(options)
        violated == NumberChecksViolated(num, cfg)
    IN /\ result.error # Null =>
            /\ violated # {}
            /\ result = Failure(NumberCheckFailure(Least(violated), num, cfg))
       /\ (violated # {} /\ ~AllowedSpecial(num, cfg)) =>
            result = Failure(NumberCheckFailure(Least(violated), num, cfg))
       /\ violated = {} => result.error = Null

\* 0 under {allowZero: false, min: 1} violates the zero check and the minimum
\* check, and the call reports "Number cannot be zero"
C3_ZeroBeforeMinimum ==
  /\ pc = "done"
  /\ family = "classify"
  /\ args[1] = Zero
  /\ options = [allowZero |-> Bool(FALSE), min |-> IntV(1)]
  /\ NumberChecksViolated(args[1], NumberConfig(options)) = {5, 7}
  /\ result = Failure(Err("Number cannot be zero"))

\* C5: when allowNaN is true a NaN candidate passes validation, and when
\* allowInfinity is true a +Infinity or -Infinity candidate passes validation,
\* whatever allowZero, allowNegative, min and max are; isInteger then succeeds
\* with false for such a candidate.
C5_AllowedSpecialBypassesLaterChecks ==
  (pc = "done" /\ family = "classify" /\ AllowedSpecial(args[1], NumberConfig(options))) =>
    /\ result.error = Null
    /\ op = "isInteger" => result = Success(Bool(FALSE))

\* -Infinity passes under {allowInfinity: true, allowNegative: false, min: 1}
C5_NegativeInfinityPasses ==
  /\ pc = "done"
  /\ op = "isInteger"
  /\ args[1] = NegInfinity
  /\ options = [allowInfinity |-> Bool(TRUE), allowNegative |-> Bool(FALSE), min |-> IntV(1)]
  /\ result = Success(Bool(FALSE))

(***************************************************************************)
(* Properties of the textual validation pipeline                           *)
(***************************************************************************)

StringConfig(o) == Spread(STRING_DEFAULT_OPTIONS, o)

StringChecks ==
  <<"presence", "type", "emptiness", "whitespace-only", "maximum length", "control characters">>

\* the candidate str violates the k-th textual check under the configuration
\* cfg; a maxLength of 0 or undefined sets no maximum length
StringCheckViolated(k, str, cfg) ==
  CASE k = 1 -> str \in {Null, Undefined}
    [] k = 2 -> typeof(str) # "string"
    [] k = 3 -> typeof(str) = "string" /\ str.s = <<>>
    [] k = 4 -> /\ typeof(str) = "string"
                /\ \A i \in 1..Len(str.s) : str.s[i] \in Whitespace
                /\ ~Truthy(cfg.allowWhitespaceOnly)
    [] k = 5 -> /\ typeof(str) = "string"
                /\ cfg.maxLength \notin {Undefined, Zero}
                /\ GT(IntV(Len(str.s)), cfg.maxLength)
    [] k = 6 -> /\ typeof(str) = "string"
                /\ \E i \in 1..Len(str.s) : str.s[i] \in ControlChars
                /\ ~Truthy(cfg.allowSpecialChars)

\* the failure the k-th textual check reports
StringCheckFailure(k, str, cfg) ==
  CASE k = 1 -> Err("String is required")
    [] k = 2 -> Err("Type must be a string")
    [] k = 3 -> Err("String must not be empty")
    [] k = 4 -> Err("String must not be whitespace-only")
    [] k = 5 -> ErrOf("String length (${str.length}) exceeds maximum allowed length (${opts.maxLength})",
                      <<IntV(Len(str.s)), cfg.maxLength>>)
    [] k = 6 -> Err("String contains invalid control characters")

StringChecksViolated(str, cfg) ==
  {k \in DOMAIN StringChecks : StringCheckViolated(k, str, cfg)}

StringValidationMessages ==
  {"String is required", "Type must be a string", "String must not be empty",
   "String must not be whitespace-only",
   "String length (${str.length}) exceeds maximum allowed length (${opts.maxLength})",
   "String contains invalid control characters"}

DocumentedNumberDefaults ==
  [min |-> Num(-1, 0), max |-> Num(1, 0), allowNegative |-> Bool(TRUE),
   allowZero |-> Bool(TRUE), allowInfinity |-> Bool(FALSE), allowNaN |-> Bool(FALSE)]

DocumentedStringDefaults ==
  [maxLength |-> IntV(10000), allowWhitespaceOnly |-> Bool(FALSE),
   allowSpecialChars |-> Bool(TRUE)]

DocumentedDefaults(name) ==
  IF name \in StringOperations THEN DocumentedStringDefaults ELSE DocumentedNumberDefaults

\* C6: a call with no override, with undefined or with {} produces the same
\* Outcome as the same call with every documented default written out
\* (numeric: min = -MAX_SAFE_INTEGER, max = MAX_SAFE_INTEGER, allowNegative
\* and allowZero true, allowInfinity and allowNaN false; textual:
\* maxLength = 10000, allowWhitespaceOnly false, allowSpecialChars true), and
\* merging {} over the defaults of a domain yields exactly those defaults.
C6_EmptyOverrideIsDefault ==
  (pc = "done" /\ options \in {Undefined, EmptyObject}) =>
    /\ result = Invoke(op, args, DocumentedDefaults(op), env)
    /\ NumberConfig(options) = DocumentedNumberDefaults
    /\ StringConfig(options) = DocumentedStringDefaults

\* 2^53 under {} is rejected by the default maximum, MAX_SAFE_INTEGER
C6_DefaultMaximumUnderEmptyOverride ==
  /\ pc = "done"
  /\ op = "isInteger"
  /\ args[1] = Num(1, 4)
  /\ options = EmptyObject
  /\ result = Failure(NumberCheckFailure(8, args[1], DocumentedNumberDefaults))

\* a flat overlay: each key the override holds takes the override's value,
\* undefined included, and each key it lacks keeps the default
Overlay(defaults, o) ==
  [k \in DOMAIN defaults |-> IF k \in DOMAIN o THEN o[k] ELSE defaults[k]]

\* C7: the effective configuration is a flat overlay of the override on the
\* defaults, and a key present in the override replaces the default even when
\* it holds undefined: validation behaves as its checks prescribe under that
\* overlay, so {min: undefined} or {max: undefined} disables the bound,
\* {maxLength: undefined} disables the length check, and {allowNegative:
\* undefined} or {allowZero: undefined} makes negative numbers or zero fail.
C7_ExplicitUndefinedReplacesDefault ==
  (pc = "done" /\ IsObject(options)) =>
    /\ family = "classify" =>
         LET cfg == Overlay(DocumentedNumberDefaults, options)
             violated == NumberChecksViolated(args[1], cfg)
         IN IF violated # {} /\ ~AllowedSpecial(args[1], cfg)
              THEN result = Failure(NumberCheckFailure(Least(violated), args[1], cfg))
              ELSE result.error = Null
    /\ family \in {"text", "longtext", "truncate"} =>
         LET cfg == Overlay(DocumentedStringDefaults, options)
             violated == StringChecksViolated(args[1], cfg)
         IN IF violated # {}
              THEN result = Failure(StringCheckFailure(Least(violated), args[1], cfg))
              ELSE result.error = Null \/ result.error.message \notin StringValidationMessages

\* -(MAX_SAFE_INTEGER + 1), below the default minimum, passes under {min: undefined}
C7_UndefinedMinimumDisablesBound ==
  /\ pc = "done"
  /\ op = "isNegative"
  /\ args[1] = Num(-1, -4)
  /\ options = [min |-> Undefined]
  /\ result = Success(Bool(TRUE))

(***************************************************************************)
(* Properties of operations with constraints of their own                  *)
(***************************************************************************)

ConstrainedOperations ==
  {"clamp", "round", "toFixed", "formatPercent", "random", "randomInt", "factorial",
   "fibonacci", "isPrime", "gcd", "lcm", "truncate", "camelCase", "pascalCase",
   "isPalindrome"}

SequenceOverride(o, allowZero) ==
  Spread(o, [k \in {"allowNegative", "allowZero"} |-> Bool(k = "allowZero" /\ allowZero)])

\* the generic validations of the operation name, in parameter order
Validations(name, a, o) ==
  CASE name = "clamp" -> <<isNumber(a[1], o), isNumber(a[2], o), isNumber(a[3], o)>>
    [] name \in {"round", "toFixed"} -> <<isNumber(a[1], o)>>
    [] name = "formatPercent" -> <<isNumber(a[1], Undefined)>>
    [] name = "random" ->
         <<isNumber(Default(a[1], IntV(0)), o), isNumber(Default(a[2], IntV(1)), o)>>
    [] name \in {"randomInt", "gcd", "lcm"} -> <<isNumber(a[1], o), isNumber(a[2], o)>>
    [] name \in {"factorial", "fibonacci"} -> <<isNumber(a[1], SequenceOverride(o, TRUE))>>
    [] name = "isPrime" -> <<isNumber(a[1], SequenceOverride(o, FALSE))>>
    [] name \in {"truncate", "camelCase", "pascalCase", "isPalindrome"} ->
         <<isString(a[1], o)>>

IsNonNegativeInteger(d) == NumberIsInteger(d) /\ ~LT(d, Zero)

\* the inputs, all valid, break a constraint of the operation name itself
ConstraintBroken(name, a) ==
  CASE name = "clamp" -> GT(a[2], a[3])
    [] name \in {"round", "formatPercent"} ->
         ~IsNonNegativeInteger(Default(a[2], IF name = "round" THEN IntV(0) ELSE IntV(2)))
    [] name = "toFixed" ->
         ~IsNonNegativeInteger(Default(a[2], IntV(0))) \/ GT(Default(a[2], IntV(0)), IntV(20))
    [] name = "random" -> GT(Default(a[1], IntV(0)), Default(a[2], IntV(1)))
    [] name = "randomInt" ->
         ~NumberIsInteger(a[1]) \/ ~NumberIsInteger(a[2]) \/ GT(a[1], a[2])
    [] name = "factorial" -> ~NumberIsInteger(a[1]) \/ GT(a[1], IntV(170))
    [] name = "fibonacci" -> ~NumberIsInteger(a[1]) \/ GT(a[1], IntV(78))
    [] name = "isPrime" -> ~NumberIsInteger(a[1])
    [] name = "gcd" -> ~NumberIsInteger(a[1]) \/ ~NumberIsInteger(a[2])
    [] name = "lcm" ->
         ~NumberIsInteger(a[1]) \/ ~NumberIsInteger(a[2]) \/ a[1] = Zero \/ a[2] = Zero
    [] name = "truncate" ->
         \/ LE(a[2], Zero)
         \/ LE(a[2], IntV(IF a[3] = Undefined THEN 3 ELSE IF a[3] = Null THEN 0 ELSE Len(a[3].s)))
    [] name \in {"camelCase", "pascalCase"} -> \A i \in 1..Len(a[1].s) : a[1].s[i] = "_"
    [] name = "isPalindrome" ->
         \A i \in 1..Len(a[1].s) :
           a[1].s[i] \notin LowerLetters \cup UpperLetters \cup Digits

ConstraintMessages ==
  {"Minimum value cannot be greater than maximum value",
   "Decimals must be a non-negative integer", "Decimals must be an integer between 0 and 20",
   "Both min and max must be integers", "Factorial is only defined for integers",
   "Factorial result would be too large (max: 170)", "Fibonacci is only defined for integers",
   "Fibonacci result would be too large (max: 78)", "Prime check is only defined for integers",
   "GCD is only defined for integers", "LCM is only defined for integers",
   "LCM is not defined when one number is zero", "Max length must be greater than 0",
   "Max length must be greater than suffix length", "String contains only underscores",
   "String contains no alphanumeric characters"}

\* C8: an operation with a constraint of its own validates its inputs first,
\* in parameter order, and reports the failure of the first invalid input
\* whatever the constraint would say; only when every input is valid is the
\* constraint evaluated, and when it is broken the call fails with the
\* constraint's failure instead of computing a result.
C8_ValidationBeforeConstraint ==
  (pc = "done" /\ op \in ConstrainedOperations) =>
    LET checks == Validations(op, args, options)
        invalid == {i \in DOMAIN checks : checks[i].kind = "throw"}
    IN IF invalid # {}
         THEN result = Failure(checks[Least(invalid)].value)
         ELSE ConstraintBroken(op, args) =>
                /\ result.error # Null
                /\ result.error.message \in ConstraintMessages

\* clamp(NaN, 10, 0): the bounds are out of order and the call reports the NaN
C8_ClampReportsInvalidInput ==
  /\ pc = "done"
  /\ op = "clamp"
  /\ args = <<NaN, IntV(10), IntV(0)>>
  /\ options = Undefined
  /\ GT(args[2], args[3])
  /\ result = Failure(Err("Number cannot be NaN"))

\* C9: when num, min and max all pass validation, clamp fails with "Minimum
\* value cannot be greater than maximum value" if min > max, and otherwise
\* succeeds with min when num < min, with max when num > max, and with num
\* itself when min <= num <= max.
C9_ClampSemantics ==
  (/\ pc = "done"
   /\ op = "clamp"
   /\ \A i \in 1..3 : isNumber(args[i], options).kind = "return") =>
    LET num == args[1]
        lo == args[2]
        hi == args[3]
    IN IF GT(lo, hi)
         THEN result = Failure(Err("Minimum value cannot be greater than maximum value"))
         ELSE /\ result.error = Null
              /\ LT(num, lo) => result.value = lo
              /\ GT(num, hi) => result.value = hi
              /\ (LE(lo, num) /\ LE(num, hi)) => result.value = num

(***************************************************************************)
(* Properties of factorial and fibonacci                                   *)
(***************************************************************************)

\* exact naturals as little-endian sequences of limbs below 2^16
PowersOfTwo == <<1, 2, 4, 8, 16, 32, 64, 128, 256, 512, 1024, 2048, 4096, 8192, 16384, 32768>>

RECURSIVE MulLimbs(_, _, _)
\* limbs * k + carry, exactly
MulLimbs(l, k, carry) ==
  IF l = <<>> THEN (IF carry = 0 THEN <<>> ELSE <<carry>>)
  ELSE LET t == Head(l) * k + carry
       IN <<t % 65536>> \o MulLimbs(Tail(l), k, t \div 65536)

\* the bits of a natural given by its limbs
LimbsToBits(l) ==
  IF l = <<>> THEN <<>>
  ELSE LET width == 16 * (Len(l) - 1) + Len(NatToBits(l[Len(l)]))
       IN [i \in 1..width |->
             (l[((i - 1) \div 16) + 1] \div PowersOfTwo[((i - 1) % 16) + 1]) % 2]

RECURSIVE ExactProduct(_, _, _)
\* the limbs of l * lo * (lo + 1) * ... * hi, exactly
ExactProduct(l, lo, hi) ==
  IF lo > hi THEN l
  ELSE IF lo = hi THEN MulLimbs(l, lo, 0)
  ELSE LET mid == (lo + hi) \div 2
           r == ExactProduct(l, lo, mid)
       IN IF Len(r) >= 0 THEN ExactProduct(r, mid + 1, hi) ELSE r

\* n!
ExactFactorial(n) == ValueOfBits(LimbsToBits(ExactProduct(<<1>>, 2, n)))

RECURSIVE ExactFibonacciBits(_, _, _)
\* from ab = <<F(lo - 2), F(lo - 1)>> the bits of <<F(hi - 1), F(hi)>>, exactly
ExactFibonacciBits(ab, lo, hi) ==
  IF lo > hi THEN ab
  ELSE IF lo = hi THEN <<ab[2], AddBits(ab[1], ab[2], 0)>>
  ELSE LET mid == (lo + hi) \div 2
           r == ExactFibonacciBits(ab, lo, mid)
       IN IF Len(r[2]) >= 0 THEN ExactFibonacciBits(r, mid + 1, hi) ELSE r

\* F(n)
ExactFibonacci(n) ==
  IF n = 0 THEN IntV(0) ELSE ValueOfBits(ExactFibonacciBits(<<<<>>, <<1>>>>, 2, n)[2])

DefaultConfiguration == {Undefined, EmptyObject}

\* a <= b, for naturals given by their bits without leading zeros
LeqBits(a, b) ==
  \/ Len(a) < Len(b)
  \/ /\ Len(a) = Len(b)
     /\ \/ \A i \in 1..Len(a) : a[i] = b[i]
        \/ \E i \in 1..Len(a) : a[i] < b[i] /\ \A j \in (i + 1)..Len(a) : a[j] = b[j]

\* the number v, an odd significand v.m times 2^v.e, is within a relative
\* error of 2^-46 of n!: the leading 70 bits of n! and the bits of v at the
\* same weights differ by at most 2^22
ApproximatesFactorial(v, n) ==
  LET exact == LimbsToBits(ExactProduct(<<1>>, 2, n))
      shift == Len(exact) - 70
      top == SubSeq(exact, shift + 1, Len(exact))
      slack == NatToBits(4194304)
  IN /\ "m" \in DOMAIN v
     /\ v.e >= shift
     /\ LET held == ZeroBits(v.e - shift) \o v.m
        IN /\ LeqBits(held, AddBits(top, slack, 0))
           /\ LeqBits(top, AddBits(held, slack, 0))

\* the original statement of C10: under the default configuration
\* factorial(n) succeeds with n! for every integer n in 0..170
C10_FactorialIsExactUpToCap ==
  (/\ pc = "done"
   /\ op = "factorial"
   /\ options \in DefaultConfiguration
   /\ NumberIsInteger(args[1])
   /\ LE(Zero, args[1])
   /\ LE(args[1], IntV(FACTORIAL_MAX))) =>
    result = Success(ExactFactorial(IntOf(args[1])))

\* C10 (amended): under the default configuration factorial(n) succeeds for
\* every integer n in 0..170, with n! exactly for n <= 22 and with a finite
\* number within a relative error of 2^-46 of n! (the running product of
\* doubles, each step rounded) for n in 23..170, and fails with "Factorial result would be too large (max: 170)"
\* for every validated integer n >= 171; fibonacci(n) succeeds with F(n)
\* exactly for every integer n in 0..78 and fails with "Fibonacci result would
\* be too large (max: 78)" for every validated integer n >= 79; neither cap
\* failure is reported for a negative or non-integer input: a finite negative
\* input gets the sign failure and a validated non-integer the integrality
\* failure.
C10_SequencesWithinCaps ==
  (pc = "done" /\ op \in {"factorial", "fibonacci"} /\ options \in DefaultConfiguration) =>
    LET n == args[1]
        validated == isNumber(n, SequenceOverride(options, TRUE)).kind = "return"
        integral == validated /\ NumberIsInteger(n)
        cap == IF op = "factorial" THEN FACTORIAL_MAX ELSE FIBONACCI_MAX
        capFailure ==
          IF op = "factorial" THEN Err("Factorial result would be too large (max: 170)")
          ELSE Err("Fibonacci result would be too large (max: 78)")
    IN /\ (integral /\ LE(Zero, n) /\ LE(n, IntV(cap))) =>
            /\ result.error = Null
            /\ result.value.tag = "number"
            /\ (op = "factorial" /\ IntOf(n) <= 22) =>
                 result.value = ExactFactorial(IntOf(n))
            /\ (op = "factorial" /\ IntOf(n) > 22) =>
                 ApproximatesFactorial(result.value, IntOf(n))
            /\ op = "fibonacci" => result.value = ExactFibonacci(IntOf(n))
       /\ (integral /\ GT(n, IntV(cap))) => result = Failure(capFailure)
       /\ (IsNumberType(n) /\ NumberIsFinite(n) /\ LT(n, Zero)) =>
            result = Failure(Err("Number cannot be negative"))
       /\ (validated /\ ~NumberIsInteger(n)) =>
            result = Failure(Err(IF op = "factorial"
                                   THEN "Factorial is only defined for integers"
                                   ELSE "Fibonacci is only defined for integers"))
       /\ result.error = capFailure => (integral /\ GT(n, IntV(cap)))

\* factorial(170) succeeds with a finite number, at the cap
C10_FactorialAtCap ==
  /\ pc = "done"
  /\ op = "factorial"
  /\ options \in DefaultConfiguration
  /\ args[1] = IntV(FACTORIAL_MAX)
  /\ result.error = Null
  /\ result.value.tag = "number"
  /\ result.value # ExactFactorial(FACTORIAL_MAX)
  /\ ApproximatesFactorial(result.value, FACTORIAL_MAX)

(***************************************************************************)
(* Properties of the sign and zero policy of factorial, fibonacci, isPrime *)
(***************************************************************************)

SequenceOperations == {"factorial", "fibonacci", "isPrime"}

\* the call failed: the success slot is empty and the failure slot holds an Error
Failed(r) == r.kind = "tuple" /\ r.value = Null /\ r.error # Null /\ r.error.tag = "Error"

\* the override says nothing about the bounds
LeavesBounds(o) == ~IsObject(o) \/ DOMAIN o \cap {"min", "max"} = {}

\* C11: factorial and fibonacci fail on every negative and every non-integer
\* number (NaN and the infinities included), and isPrime on every zero,
\* negative and non-integer number, whatever override the caller passes: a
\* finite negative input reports the sign failure even under
\* {allowNegative: true}, and zero passed to factorial or fibonacci succeeds
\* even under {allowZero: false}.
C11_OwnPolicyOverridesCaller ==
  (pc = "done" /\ op \in SequenceOperations /\ IsNumberType(args[1])) =>
    LET n == args[1] IN
    /\ (LT(n, Zero) \/ ~NumberIsInteger(n)) => Failed(result)
    /\ (NumberIsFinite(n) /\ LT(n, Zero)) =>
         result = Failure(Err("Number cannot be negative"))
    /\ (op = "isPrime" /\ n = Zero) => result = Failure(Err("Number cannot be zero"))
    /\ (op = "factorial" /\ n = Zero /\ LeavesBounds(options)) => result = Success(IntV(1))
    /\ (op = "fibonacci" /\ n = Zero /\ LeavesBounds(options)) => result = Success(IntV(0))

\* factorial(-5, {allowNegative: true}) reports the sign failure
C11_NegativeRejectedDespiteCaller ==
  /\ pc = "done"
  /\ op = "factorial"
  /\ args[1] = IntV(-5)
  /\ options = [allowNegative |-> Bool(TRUE)]
  /\ result = Failure(Err("Number cannot be negative"))

(***************************************************************************)
(* Properties of isPrime                                                   *)
(***************************************************************************)

\* k has no divisor d with 1 < d < k
NoProperDivisor(k) == \A d \in 2..(k - 1) : k % d # 0

\* C12: for every positive integer n that passes validation, isPrime(n)
\* succeeds with true exactly when n > 1 and n has no divisor d with
\* 1 < d < n (1 is not prime, 2 is, 4 and 9 are not, 17 is); odd composites,
\* squares of primes included, are classified as composite.
C12_PrimeIffNoProperDivisor ==
  (/\ pc = "done"
   /\ op = "isPrime"
   /\ NumberIsInteger(args[1])
   /\ GT(args[1], Zero)
   /\ isNumber(args[1], SequenceOverride(options, FALSE)).kind = "return") =>
    IF args[1].q = 0
      THEN LET k == IntOf(args[1])
           IN result = Success(Bool(k > 1 /\ NoProperDivisor(k)))
      ELSE \* 2^53 = 2 * 2^52
           args[1] = Num(1, 4) => result = Success(Bool(FALSE))

\* isPrime(169) = false: the loop reaches the square root 13 itself
C12_SquareOfPrimeIsComposite ==
  /\ pc = "done"
  /\ op = "isPrime"
  /\ args[1] = IntV(169)
  /\ NoProperDivisor(13)
  /\ result = Success(Bool(FALSE))

(***************************************************************************)
(* Properties of gcd and lcm                                               *)
(***************************************************************************)

AbsOf(k) == IF k < 0 THEN -k ELSE k

\* d divides k (only 0 is divisible by 0)
Divides(d, k) == IF d = 0 THEN k = 0 ELSE k % d = 0

\* both operands pass validation under the override o
BothValidated(a, o) ==
  isNumber(a[1], o).kind = "return" /\ isNumber(a[2], o).kind = "return"

\* C13: on validated operands gcd fails with "GCD is only defined for
\* integers" when either is not an integer, and otherwise succeeds with the
\* greatest common divisor of |a| and |b|: a non-negative integer that divides
\* both operands and is divided by each of their common divisors, with
\* gcd(0, n) = gcd(n, 0) = |n|, gcd(0, 0) = 0, gcd(a, b) = gcd(b, a), and
\* gcd(a, b) = gcd(-a, b) when -a passes validation too.
C13_GcdIsGreatestCommonDivisor ==
  (pc = "done" /\ op = "gcd" /\ BothValidated(args, options)) =>
    IF ~NumberIsInteger(args[1]) \/ ~NumberIsInteger(args[2])
      THEN result = Failure(Err("GCD is only defined for integers"))
      ELSE LET a == IntOf(args[1])
               b == IntOf(args[2])
           IN /\ result.kind = "tuple"
              /\ result.error = Null
              /\ NumberIsInteger(result.value)
              /\ LET g == IntOf(result.value)
                 IN /\ g >= 0
                    /\ Divides(g, a)
                    /\ Divides(g, b)
                    /\ \A d \in 1..(AbsOf(a) + AbsOf(b)) :
                         (Divides(d, a) /\ Divides(d, b)) => Divides(d, g)
                    /\ a = 0 => g = AbsOf(b)
                    /\ b = 0 => g = AbsOf(a)
              /\ result = Invoke("gcd", <<args[2], args[1]>>, options, env)
              /\ isNumber(Negate(args[1]), options).kind = "return" =>
                   result = Invoke("gcd", <<Negate(args[1]), args[2]>>, options, env)

\* gcd(-18, 12) = 6
C13_GcdOfNegativeOperand ==
  /\ pc = "done"
  /\ op = "gcd"
  /\ args = <<IntV(-18), IntV(12)>>
  /\ BothValidated(args, options)
  /\ result = Success(IntV(6))

\* the least positive common multiple of a, b > 0, by its definition
LeastCommonMultiple(a, b) == Least({k * a : k \in {j \in 1..b : (j * a) % b = 0}})

\* the same number as a value, from the bits of (a / g) * b, g the greatest
\* common divisor: exact whatever the size of the operands
ExactLcm(a, b) == ValueOfBits(MulBits(NatToBits(a \div GcdLoop(a, b)), b, 0))

\* C14: on validated operands lcm fails with "LCM is only defined for
\* integers" when either is not an integer, else with "LCM is not defined
\* when one number is zero" when either is 0, and otherwise, under the
\* default configuration, succeeds with the least positive common multiple
\* of |a| and |b|, that is |a*b| / gcd(|a|, |b|).
C14_LcmSemantics ==
  (/\ pc = "done"
   /\ op = "lcm"
   /\ BothValidated(args, options)) =>
    IF ~NumberIsInteger(args[1]) \/ ~NumberIsInteger(args[2])
      THEN result = Failure(Err("LCM is only defined for integers"))
    ELSE IF args[1] = Zero \/ args[2] = Zero
      THEN result = Failure(Err("LCM is not defined when one number is zero"))
    ELSE options \in DefaultConfiguration =>
           LET a == AbsOf(IntOf(args[1]))
               b == AbsOf(IntOf(args[2]))
           IN /\ result = Success(ExactLcm(a, b))
              /\ (a <= 100 /\ b <= 100) =>
                   result.value = IntV(LeastCommonMultiple(a, b))

(***************************************************************************)
(* Properties of sum, average, min and max                                 *)
(***************************************************************************)

\* the indices of the elements that fail validation under the override o
InvalidElements(xs, o) == {i \in 1..Len(xs) : isNumber(xs[i], o).kind = "throw"}

\* C15: sum, average, min and max fail with "Input must be an array" for a
\* non-array, with "Array cannot be empty" for the empty array, and on a
\* non-empty array validate every element against the effective
\* configuration: with an invalid element the call fails with the failure of
\* the invalid element of lowest index, and it succeeds only when every
\* element passes.
C15_ArrayThenElementsInOrder ==
  (pc = "done" /\ op \in ArrayOperations) =>
    IF args[1].tag # "array" THEN result = Failure(Err("Input must be an array"))
    ELSE IF args[1].xs = <<>> THEN result = Failure(Err("Array cannot be empty"))
    ELSE LET xs == args[1].xs
             invalid == InvalidElements(xs, options)
         IN IF invalid # {}
              THEN result = Failure(isNumber(xs[Least(invalid)], options).value)
              ELSE result.kind = "tuple" /\ result.error = Null /\ result.value # Null

\* max([NaN, null]): both elements are invalid and the NaN is reported
C15_FirstInvalidElementReported ==
  /\ pc = "done"
  /\ op = "max"
  /\ args[1] = Arr(<<NaN, Null>>)
  /\ InvalidElements(args[1].xs, options) = {1, 2}
  /\ result = Failure(Err("Number cannot be NaN"))

\* r is s / k for a count k >= 1: NaN and the infinities are unchanged, and a
\* finite r times k gives s back (a quotient no multiple of 1/4 is kept as
\* its dividend and divisor)
IsQuotient(r, s, k) ==
  CASE s.tag # "number" -> r = s
    [] s.tag = "number" /\ "dividend" \in DOMAIN r -> r.dividend = s /\ r.divisor = k
    [] OTHER -> r.tag = "number" /\ r.q * k = s.q /\ r.n * k = s.n

\* C16: average fails exactly when sum fails on the same arguments, with the
\* same failure; when sum succeeds with s on a sequence of length k, average
\* succeeds with s / k.
C16_AverageFollowsSum ==
  (pc = "done" /\ op = "average") =>
    LET s == Invoke("sum", args, options, env)
    IN IF s.error # Null
         THEN result = Failure(s.error)
         ELSE /\ result.kind = "tuple"
              /\ result.error = Null
              /\ IsQuotient(result.value, s.value, Len(args[1].xs))

\* average([1, -2]) = -1/2, sum([1, -2]) = -1
C16_AverageOfTwo ==
  /\ pc = "done"
  /\ op = "average"
  /\ args[1] = Arr(<<IntV(1), IntV(-2)>>)
  /\ Invoke("sum", args, options, env) = Success(IntV(-1))
  /\ result = Success(Half(-1))

(***************************************************************************)
(* Properties of truncate                                                  *)
(***************************************************************************)

\* the characters of the suffix in force: "..." when none is passed
SuffixInForce(v) == IF v = Undefined THEN <<".", ".", ".">> ELSE v.s

\* C17: on a validated string truncate fails with "Max length must be greater
\* than 0" when maxLength <= 0, whatever the suffix, and with "Max length
\* must be greater than suffix length" when 0 < maxLength <= suffix.length;
\* otherwise, for an integer maxLength, it returns str unchanged when
\* str.length <= maxLength and else the first maxLength - suffix.length
\* characters of str followed by the suffix, so that a successful result is
\* never longer than maxLength.
C17_TruncateSemantics ==
  (/\ pc = "done"
   /\ op = "truncate"
   /\ isString(args[1], options).kind = "return"
   /\ IsNumberType(args[2])) =>
    LET str == args[1].s
        maxLength == args[2]
    IN /\ LE(maxLength, Zero) => result = Failure(Err("Max length must be greater than 0"))
       /\ (GT(maxLength, Zero) /\ args[3].tag \in {"string", "undefined"}) =>
            LET suffix == SuffixInForce(args[3]) IN
            IF LE(maxLength, IntV(Len(suffix)))
              THEN result = Failure(Err("Max length must be greater than suffix length"))
              ELSE NumberIsInteger(maxLength) =>
                     LET k == IntOf(maxLength) IN
                     /\ result = Success(Str(IF Len(str) <= k THEN str
                                            ELSE SubSeq(str, 1, k - Len(suffix)) \o suffix))
                     /\ Len(result.value.s) <= k

\* a five-character string cut to 4 with the default suffix: one character
\* and "..."
C17_CutToMaxLength ==
  /\ pc = "done"
  /\ op = "truncate"
  /\ args = <<Str(<<"a", "b", "c", "a", "b">>), IntV(4), Undefined>>
  /\ result = Success(Str(<<"a", ".", ".", ".">>))

(***************************************************************************)
(* Properties of isPalindrome                                              *)
(***************************************************************************)

IsLowerAlphanumeric(c) == c \in LowerLetters \cup Digits

\* the text lower-cased, without the characters outside a-z and 0-9
Normalized(s) == SelectSeq(ToLowerCase(s), IsLowerAlphanumeric)

\* s with the character c inserted after its first i characters
InsertAt(s, i, c) == SubSeq(s, 1, i) \o <<c>> \o SubSeq(s, i + 1, Len(s))

\* punctuation and blank
Separators == {" ", "-", "_"}

\* C18: on a validated string isPalindrome fails with "String contains no
\* alphanumeric characters" when lower-casing and removing every character
\* outside a-z and 0-9 leaves nothing, and otherwise succeeds with true
\* exactly when what remains reads the same backwards; the Outcome is the
\* same for the reverse of the string, for its upper- and lower-cased forms,
\* and for the string with a blank or a punctuation character inserted
\* (where that string still passes validation).
C18_PalindromeOfNormalizedText ==
  (/\ pc = "done"
   /\ op = "isPalindrome"
   /\ isString(args[1], options).kind = "return") =>
    LET s == args[1].s
        cleaned == Normalized(s)
        n == Len(cleaned)
        Same(t) == result = Invoke("isPalindrome", <<Str(t)>>, options, env)
    IN /\ n = 0 => result = Failure(Err("String contains no alphanumeric characters"))
       /\ n > 0 => result = Success(Bool(\A i \in 1..n : cleaned[i] = cleaned[n + 1 - i]))
       /\ Same(Invoke("reverse", args, options, env).value.s)
       /\ Same(ToUpperCase(s))
       /\ Same(ToLowerCase(s))
       /\ \A i \in 0..Len(s) : \A c \in Separators :
            isString(Str(InsertAt(s, i, c)), options).kind = "return" =>
              Same(InsertAt(s, i, c))

\* "B B" is a palindrome: "bb" remains of it
C18_MixedCasePalindrome ==
  /\ pc = "done"
  /\ op = "isPalindrome"
  /\ args[1] = Str(<<"B", " ", "B">>)
  /\ Normalized(args[1].s) = <<"b", "b">>
  /\ result = Success(Bool(TRUE))

(***************************************************************************)
(* Properties of the case transforms                                       *)
(***************************************************************************)

CaseTransforms == {"camelCase", "snakeCase", "kebabCase", "pascalCase", "titleCase"}

\* C19: each case transform is idempotent: when it succeeds on s with output
\* t, applying it to t, under the same configuration, succeeds with t again.
C19_CaseTransformsIdempotent ==
  (/\ pc = "done"
   /\ op \in CaseTransforms
   /\ result.kind = "tuple"
   /\ result.error = Null) =>
    Invoke(op, <<result.value>>, options, env) = Success(result.value)

(***************************************************************************)
(* Properties of the conversions between numbers and text                  *)
(***************************************************************************)

WithinSafeBounds(v) ==
  /\ typeof(v) = "number" /\ NumberIsFinite(v)
  /\ ~LT(v, Negate(MAX_SAFE_INTEGER)) /\ ~GT(v, MAX_SAFE_INTEGER)

\* toFixed(n) has returned, called without decimals under the defaults, for a
\* finite n within the safe-integer bounds
ToFixedOfSafeNumber ==
  /\ pc = "done" /\ op = "toFixed" /\ args[2] = Undefined
  /\ options \in DefaultConfiguration /\ WithinSafeBounds(args[1])

\* the integer nearest to v, the one farther from zero when two are as near
NearestInteger(v) ==
  IF NumberIsInteger(v) THEN v
  ELSE LET near == {w \in ((v.n \div 4) - 1)..((v.n \div 4) + 1) : AbsOf(4 * w - v.n) <= 2}
       IN IntV(CHOOSE w \in near : \A u \in near : AbsOf(u) <= AbsOf(w))

\* C20 as stated: under the default configuration, for every finite number n
\* within the safe-integer bounds, toFixed(n) succeeds and parseNumber applied
\* to its text succeeds with a value equal to n.
C20_RoundTripRecoversNumber ==
  ToFixedOfSafeNumber =>
    /\ ~Failed(result)
    /\ Invoke("parseNumber", <<result.value>>, options, env) = Success(args[1])

\* C20 amended: under the default configuration, for every finite number n
\* within the safe-integer bounds, toFixed(n) succeeds and parseNumber applied
\* to its text succeeds with the integer nearest to n (ties away from zero);
\* so the round trip recovers n exactly when n is an integer.
C20_RoundTripRecoversNearestInteger ==
  ToFixedOfSafeNumber =>
    /\ ~Failed(result)
    /\ Invoke("parseNumber", <<result.value>>, options, env) = Success(NearestInteger(args[1]))
    /\ (Invoke("parseNumber", <<result.value>>, options, env) = Success(args[1]))
         <=> NumberIsInteger(args[1])

\* the round trip at the lower end of the safe range: toFixed(-(2^53 - 1)) is
\* the 17 characters "-9007199254740991", which parse to the same number
C20_RoundTripAtLowerBound ==
  /\ ToFixedOfSafeNumber
  /\ args[1] = Negate(MAX_SAFE_INTEGER)
  /\ ~Failed(result) /\ Len(result.value.s) = 17
  /\ Invoke("parseNumber", <<result.value>>, options, env) = Success(args[1])

(***************************************************************************)
(* Properties of the network adapter                                       *)
(***************************************************************************)

\* a run of safeFetch has settled
FetchDone == pc = "done" /\ op = "safeFetch"

\* returnJson as the run sees it: true when the caller passed none
ReturnJson == Truthy(Default(args[3], Bool(TRUE)))

C22_OneRequestAtMostOneDecode ==
  family = "fetch" =>
    /\ pc = "ready" => env.requests = <<>>
    /\ pc # "ready" => env.requests = <<[url |-> args[1], init |-> args[2]]>>
    /\ Len(env.answers) <= 1
    /\ Len(env.decodes) <= 1
    /\ pc \in {"ready", "fetching"} => env.decodes = <<>>
    /\ env.decodes # <<>> =>
         /\ env.answers = <<Fulfilled(env.decodes[1])>>
         /\ env.decodes[1].ok
         /\ ReturnJson
    /\ Len(env.bodies) <= Len(env.decodes)

\* a 500 response to a run with returnJson = true: one request, no decode
C22_NoDecodeOfFailure ==
  /\ FetchDone
  /\ args[3] = Bool(TRUE)
  /\ env.answers = <<Fulfilled(Response(2, FALSE, IntV(500)))>>
  /\ Len(env.requests) = 1
  /\ env.decodes = <<>>
  /\ result = Resolved(Response(2, FALSE, IntV(500)))

(***************************************************************************)
(* Properties of the package as its README describes it                    *)
(***************************************************************************)

\* C23: every utility of the package, safeFetch included, returns a tuple
\* [result, error]: the successful value with a null error, or null with an
\* Error; a failed safeFetch yields [null, error], not a rejected promise.
C23_EveryUtilityReturnsTuple ==
  pc = "done" =>
    /\ result.kind = "tuple"
    /\ result.error = Null \/ (result.value = Null /\ result.error.tag = "Error")
    /\ (op = "safeFetch" /\ env.answers[1].kind = "rejected") =>
         result = Failure(env.answers[1].value)

(***************************************************************************)
(* Properties of the catalogs as a whole                                   *)
(***************************************************************************)

RandomOperations == {"random", "randomInt"}

\* the environments a later invocation in the same process may meet: another
\* sample of Math.random(), the same Intl
LaterEnvs == {e \in EnvValues : e.intlOk = env.intlOk /\ e.random # env.random}

C25_NothingObservableChanges ==
  /\ heap.numberDefaults = DocumentedNumberDefaults
  /\ heap.stringDefaults = DocumentedStringDefaults
  /\ heap.options = options
  /\ heap.numbers = args[1]

\* factorial was called with the caller's {allowNegative: true} and imposed
\* its own allowNegative: false, and the caller's object still says true
C25_OverrideKeptAfterFactorial ==
  /\ pc = "done" /\ op = "factorial"
  /\ options = [allowNegative |-> Bool(TRUE)]
  /\ args[1] = IntV(-5)
  /\ result = Failure(Err("Number cannot be negative"))
  /\ heap.options = [allowNegative |-> Bool(TRUE)]

(***************************************************************************)
(* Properties of the bound checks                                          *)
(***************************************************************************)

\* C26: the minimum and maximum checks are inclusive: of the finite candidates
\* that pass the zero and sign checks, one strictly below the effective min
\* fails with the minimum failure, one not below min and strictly above the
\* effective max fails with the maximum failure, and every other one, equal
\* to min or to max included, passes; under the default configuration every
\* integer from Number.MIN_SAFE_INTEGER to Number.MAX_SAFE_INTEGER passes, and
\* isInteger on both end points succeeds with true.
C26_BoundsInclusive ==
  (pc = "done" /\ op = "isInteger" /\ IsNumberType(args[1]) /\ NumberIsFinite(args[1])) =>
    LET num == args[1]
        cfg == NumberConfig(options)
        below == cfg.min # Undefined /\ LT(num, cfg.min)
        above == cfg.max # Undefined /\ GT(num, cfg.max)
    IN /\ NumberChecksViolated(num, cfg) \cap {5, 6} = {} =>
            /\ below => result = Failure(NumberCheckFailure(7, num, cfg))
            /\ (~below /\ above) => result = Failure(NumberCheckFailure(8, num, cfg))
            /\ (~below /\ ~above) => result = Success(Bool(NumberIsInteger(num)))
            /\ (num = cfg.min /\ ~above) => ~Failed(result)
            /\ (num = cfg.max /\ ~below) => ~Failed(result)
       /\ (/\ options \in DefaultConfiguration /\ NumberIsInteger(num)
           /\ LE(Negate(MAX_SAFE_INTEGER), num) /\ LE(num, MAX_SAFE_INTEGER)) =>
            result = Success(Bool(TRUE))

\* isInteger(Number.MIN_SAFE_INTEGER) succeeds with true: the candidate
\* equals the default minimum
C26_MinSafeIntegerPasses ==
  /\ pc = "done" /\ op = "isInteger" /\ options = Undefined
  /\ args[1] = Negate(MAX_SAFE_INTEGER)
  /\ args[1] = NumberConfig(options).min
  /\ result = Success(Bool(TRUE))

\* C27: for every configuration, allowNaN and allowInfinity included, a
\* successful clamp(num, min, max) returns a value r with min <= r <= max.
C27_ClampStaysWithinBounds ==
  (pc = "done" /\ op = "clamp" /\ ~Failed(result)) =>
    /\ IsNumberType(result.value)
    /\ LE(args[2], result.value)
    /\ LE(result.value, args[3])

\* C28: for every effective textual configuration whose maxLength is a
\* number >= 0, zero included, and every non-empty string that passes the
\* presence, type, emptiness and whitespace checks, validation fails with the
\* "exceeds maximum allowed length" failure exactly when the string is longer
\* than maxLength.
C28_MaxLengthEnforced ==
  LET str == args[1]
      cfg == StringConfig(options)
  IN (/\ pc = "done" /\ family = "text"
      /\ StringChecksViolated(str, cfg) \cap 1..4 = {}
      /\ IsNumberType(cfg.maxLength) /\ LE(Zero, cfg.maxLength)) =>
       (result = Failure(StringCheckFailure(5, str, cfg))
          <=> GT(IntV(Len(str.s)), cfg.maxLength))

(***************************************************************************)
(* Properties of lcm under the caller's configuration                      *)
(***************************************************************************)

\* the messages of the generic numeric validation
NumberValidationMessages ==
  {NumberCheckFailure(k, Zero, NUMBER_DEFAULT_OPTIONS).message : k \in DOMAIN NumberChecks}

\* C29: for every caller configuration and all non-zero integers a and b that
\* pass numeric validation under it, lcm(a, b, config) does not fail with a
\* generic validation failure.
C29_LcmHonoursConfiguration ==
  (/\ pc = "done" /\ op = "lcm"
   /\ \A i \in 1..2 : /\ isNumber(args[i], options).kind = "return"
                       /\ NumberIsInteger(args[i])
                       /\ ~IsZero(args[i])) =>
    ~(Failed(result) /\ result.error.message \in NumberValidationMessages)

====
